------------------------- MODULE IndexFiles_proofs -------------------------
(***************************************************************************)
(* Theorems about IndexFiles, for any number of runs, any vocabularies and *)
(* any kills.                                                              *)
(*                                                                         *)
(* Types, and that the metadata on disk leads to the posting lists of its  *)
(* run.  The second needs the same of the metadata in the memory of both   *)
(* programs (HeldInPlace), that the indexer works on metadata of its run   *)
(* (OfThisRun), and that a server closes only fields it has loaded         *)
(* (MetadataLoaded).                                                       *)
(*                                                                         *)
(* What a start of the server finds: it loads files of one completed run,  *)
(* fails only with a reason, and never decodes metadata in a buffer that   *)
(* is too small.  The invariant RunInv follows the two programs by their   *)
(* positions: which files the indexer has behind it (Written), that        *)
(* nothing can start before the first run has written its last file        *)
(* (NotYet), what holds of disk and server's memory once a run is complete *)
(* (OfLastRun, SizesMatch, Loaded, LoadedMatches), and where a file can be *)
(* empty (Rewriting).                                                      *)
(***************************************************************************)
EXTENDS IndexFiles, TLAPS, SequenceTheorems, FiniteSetTheorems

Step == [do: {"truncate", "write", "append", "read", "serve"}, file: Files]

\* The metadata of field f that p has in memory.
HeldMetadata(p, f) == held[p][<<"metadata", f>>]

\* What a server has loaded leads to the posting lists of its run.
HeldInPlace ==
  \A f \in Fields :
    HeldMetadata("server", f) # Empty => InPlace(f, HeldMetadata("server", f))

\* So does what the indexer has collected while it works; it is of this run.
OfThisRun ==
  pc["indexer"] # 0 =>
    /\ run \in Runs
    /\ \A f \in Fields : /\ IsMetadata(HeldMetadata("indexer", f))
                         /\ HeldMetadata("indexer", f).run = run
                         /\ InPlace(f, HeldMetadata("indexer", f))

\* A server behind a step that reads metadata has that metadata.
MetadataLoaded ==
  /\ pc["server"] > 4 => IsMetadata(HeldMetadata("server", "name"))
  /\ pc["server"] > 6 => IsMetadata(HeldMetadata("server", "address"))

IInv == TypeOK /\ PostingsInPlace /\ HeldInPlace /\ OfThisRun /\ MetadataLoaded

-----------------------------------------------------------------------------
(* The programs                                                            *)

LEMMA StepType ==
  ASSUME NEW d \in {"truncate", "write", "append", "read", "serve"}, NEW k, NEW f,
         <<k, f>> \in Files
  PROVE  Do(d, k, f) \in Step
  BY DEF Do, Step

LEMMA FileNames ==
  /\ \A k \in Shared : <<k, "all">> \in Files
  /\ \A f \in Fields : <<"metadata", f>> \in Files /\ <<"size", f>> \in Files
  /\ \A x \in Files : /\ x[1] \in {"metadata", "size"} => x[2] \in Fields
                      /\ x = <<x[1], x[2]>>
  BY DEF Files, Shared, Fields

LEMMA ReplaceSteps ==
  ASSUME NEW k, NEW f, <<k, f>> \in Files
  PROVE  /\ Replace(k, f) \in Seq(Step) /\ Len(Replace(k, f)) = 2
         /\ Replace(k, f)[1] = Do("truncate", k, f)
         /\ Replace(k, f)[2] = Do("write", k, f)
  <1>1. Do("truncate", k, f) \in Step /\ Do("write", k, f) \in Step
    BY StepType
  <1> QED BY <1>1 DEF Replace

LEMMA Concatenated ==
  ASSUME NEW s \in Seq(Step), NEW t \in Seq(Step), NEW m \in Nat, NEW n \in Nat,
         Len(s) = m, Len(t) = n
  PROVE  /\ s \o t \in Seq(Step) /\ Len(s \o t) = m + n
         /\ \A i \in 1..m : (s \o t)[i] = s[i]
         /\ \A i \in 1..n : (s \o t)[m + i] = t[i]
  <1>1. /\ s \o t \in Seq(Step) /\ Len(s \o t) = m + n
        /\ \A i \in 1..(m + n) : (s \o t)[i] = IF i <= m THEN s[i] ELSE t[i - m]
    BY ConcatProperties
  <1>2. \A i \in 1..m : (s \o t)[i] = s[i]
    BY <1>1
  <1>3. ASSUME NEW i \in 1..n  PROVE (s \o t)[m + i] = t[i]
    <2>1. m + i \in 1..(m + n) /\ ~(m + i <= m) /\ m + i - m = i
      OBVIOUS
    <2> QED BY <2>1, <1>1
  <1> QED BY <1>1, <1>2, <1>3

LEMMA CloseStepsAre ==
  ASSUME NEW f \in Fields
  PROVE  /\ CloseSteps(f) \in Seq(Step) /\ Len(CloseSteps(f)) = 4
         /\ \A i \in 1..4 : /\ CloseSteps(f)[i].do \in {"truncate", "write"}
                            /\ CloseSteps(f)[i].file \in {"metadata", "size"} \X Fields
  <1> DEFINE m == Replace("metadata", f)
             z == Replace("size", f)
  <1>1. /\ m \in Seq(Step) /\ Len(m) = 2
        /\ m[1] = Do("truncate", "metadata", f) /\ m[2] = Do("write", "metadata", f)
    BY ReplaceSteps, FileNames
  <1>2. /\ z \in Seq(Step) /\ Len(z) = 2
        /\ z[1] = Do("truncate", "size", f) /\ z[2] = Do("write", "size", f)
    BY ReplaceSteps, FileNames
  <1> HIDE DEF m, z
  <1>3. /\ m \o z \in Seq(Step) /\ Len(m \o z) = 4
        /\ (m \o z)[1] = m[1] /\ (m \o z)[2] = m[2]
        /\ (m \o z)[3] = z[1] /\ (m \o z)[4] = z[2]
    <2>1. /\ m \o z \in Seq(Step) /\ Len(m \o z) = 2 + 2
          /\ \A i \in 1..2 : (m \o z)[i] = m[i]
          /\ \A i \in 1..2 : (m \o z)[2 + i] = z[i]
      <3>1. 2 \in Nat /\ 2 \in Nat
        OBVIOUS
      <3>2. m \in Seq(Step) /\ z \in Seq(Step) /\ Len(m) = 2 /\ Len(z) = 2
        BY <1>1, <1>2
      <3> QED BY ONLY <3>1, <3>2, Concatenated, ZenonT(60)
    <2>2. (m \o z)[2 + 1] = z[1] /\ (m \o z)[2 + 2] = z[2]
      BY <2>1
    <2> QED BY <2>1, <2>2
  <1>4. \A i \in 1..4 : /\ (m \o z)[i].do \in {"truncate", "write"}
                        /\ (m \o z)[i].file \in {"metadata", "size"} \X Fields
    <2> TAKE i \in 1..4
    <2>1. i = 1 \/ i = 2 \/ i = 3 \/ i = 4
      OBVIOUS
    <2> QED BY <2>1, <1>1, <1>2, <1>3 DEF Do
  <1>5. CloseSteps(f) = m \o z
    BY DEF CloseSteps, m, z
  <1> QED BY <1>3, <1>4, <1>5

LEMMA OpenStepsAre ==
  ASSUME NEW f \in Fields
  PROVE  /\ OpenSteps(f) \in Seq(Step) /\ Len(OpenSteps(f)) = 2
         /\ OpenSteps(f)[1].do = "read"
         /\ OpenSteps(f)[2] = Do("read", "metadata", f)
  <1>1. Do("read", "size", f) \in Step /\ Do("read", "metadata", f) \in Step
    BY StepType, FileNames
  <1>2. Do("read", "size", f).do = "read"
    BY DEF Do
  <1> QED BY <1>1, <1>2 DEF OpenSteps

\* What the proofs use of the order of the server's steps: it reads before it
\* serves and writes afterwards, to metadata and sizes only.
LEMMA ServerProgram ==
  /\ ServerSteps \in Seq(Step) /\ Len(ServerSteps) = 17
  /\ \A i \in 1..8 : ServerSteps[i].do = "read"
  /\ ServerSteps[4].file = <<"metadata", "name">>
  /\ ServerSteps[6].file = <<"metadata", "address">>
  /\ ServerSteps[9].do = "serve"
  /\ \A i \in 10..17 : /\ ServerSteps[i].do \in {"truncate", "write"}
                       /\ ServerSteps[i].file \in {"metadata", "size"} \X Fields
  <1> DEFINE load  == <<Do("read", "meta", "all"), Do("read", "ngram", "all")>>
             on    == OpenSteps("name")
             oa    == OpenSteps("address")
             serve == <<Do("read", "rtree", "all"), Do("read", "noisy_model", "all"),
                        Do("serve", "docs_store", "all")>>
             cn    == CloseSteps("name")
             ca    == CloseSteps("address")
             s4    == load \o on
             s6    == s4 \o oa
             s9    == s6 \o serve
             s13   == s9 \o cn
             s17   == s13 \o ca
  <1>0. ServerSteps = s17
    BY DEF ServerSteps
  <1>1. /\ load \in Seq(Step) /\ Len(load) = 2
        /\ load[1].do = "read" /\ load[2].do = "read"
    <2>1. /\ Do("read", "meta", "all") \in Step /\ Do("read", "ngram", "all") \in Step
      BY StepType, FileNames DEF Shared
    <2>2. Do("read", "meta", "all").do = "read" /\ Do("read", "ngram", "all").do = "read"
      BY DEF Do
    <2> QED BY <2>1, <2>2
  <1>2. /\ serve \in Seq(Step) /\ Len(serve) = 3
        /\ serve[1].do = "read" /\ serve[2].do = "read" /\ serve[3].do = "serve"
    <2>1. /\ Do("read", "rtree", "all") \in Step
          /\ Do("read", "noisy_model", "all") \in Step
          /\ Do("serve", "docs_store", "all") \in Step
      BY StepType, FileNames DEF Shared
    <2>2. /\ Do("read", "rtree", "all").do = "read"
          /\ Do("read", "noisy_model", "all").do = "read"
          /\ Do("serve", "docs_store", "all").do = "serve"
      BY DEF Do
    <2> QED BY <2>1, <2>2
  <1>3. /\ on \in Seq(Step) /\ Len(on) = 2
        /\ on[1].do = "read" /\ on[2].do = "read" /\ on[2].file = <<"metadata", "name">>
        /\ oa \in Seq(Step) /\ Len(oa) = 2
        /\ oa[1].do = "read" /\ oa[2].do = "read" /\ oa[2].file = <<"metadata", "address">>
    BY OpenStepsAre DEF Fields, Do
  <1>4. /\ cn \in Seq(Step) /\ Len(cn) = 4 /\ ca \in Seq(Step) /\ Len(ca) = 4
        /\ \A i \in 1..4 : /\ cn[i].do \in {"truncate", "write"}
                           /\ ca[i].do \in {"truncate", "write"}
                           /\ cn[i].file \in {"metadata", "size"} \X Fields
                           /\ ca[i].file \in {"metadata", "size"} \X Fields
    BY CloseStepsAre DEF Fields
  <1> HIDE DEF load, on, oa, serve, cn, ca
  <1>5. /\ s4 \in Seq(Step) /\ Len(s4) = 4
        /\ \A i \in 1..4 : s4[i].do = "read"
        /\ s4[4].file = <<"metadata", "name">>
    <2>0. /\ s4 \in Seq(Step) /\ Len(s4) = 2 + 2
          /\ \A i \in 1..2 : s4[i] = load[i]
          /\ \A i \in 1..2 : s4[2 + i] = on[i]
      <3>1. 2 \in Nat /\ 2 \in Nat
        OBVIOUS
      <3>2. load \in Seq(Step) /\ on \in Seq(Step) /\ Len(load) = 2 /\ Len(on) = 2
        BY <1>1, <1>3
      <3> QED BY ONLY <3>1, <3>2, Concatenated, ZenonT(60)
    <2>1. /\ s4 \in Seq(Step) /\ Len(s4) = 4
          /\ s4[1] = load[1] /\ s4[2] = load[2] /\ s4[3] = on[1] /\ s4[4] = on[2]
      <3> HIDE DEF s4
      <3>1. s4[2 + 1] = on[1] /\ s4[2 + 2] = on[2]
        BY <2>0
      <3> QED BY <2>0, <3>1
    <2>2. \A i \in 1..4 : i = 1 \/ i = 2 \/ i = 3 \/ i = 4
      OBVIOUS
    <2> HIDE DEF s4
    <2> QED BY <1>1, <1>3, <2>1, <2>2
  <1> HIDE DEF s4
  <1>6. /\ s6 \in Seq(Step) /\ Len(s6) = 6
        /\ \A i \in 1..6 : s6[i].do = "read"
        /\ s6[4].file = <<"metadata", "name">> /\ s6[6].file = <<"metadata", "address">>
    <2>0. /\ s6 \in Seq(Step) /\ Len(s6) = 4 + 2
          /\ \A i \in 1..4 : s6[i] = s4[i]
          /\ \A i \in 1..2 : s6[4 + i] = oa[i]
      <3>1. 4 \in Nat /\ 2 \in Nat
        OBVIOUS
      <3>2. s4 \in Seq(Step) /\ oa \in Seq(Step) /\ Len(s4) = 4 /\ Len(oa) = 2
        BY <1>5, <1>3
      <3> QED BY ONLY <3>1, <3>2, Concatenated, ZenonT(60)
    <2>1. /\ s6 \in Seq(Step) /\ Len(s6) = 6
          /\ \A i \in 1..4 : s6[i] = s4[i]
          /\ s6[5] = oa[1] /\ s6[6] = oa[2]
      <3> HIDE DEF s6
      <3>1. s6[4 + 1] = oa[1] /\ s6[4 + 2] = oa[2]
        BY <2>0
      <3> QED BY <2>0, <3>1
    <2>2. \A i \in 1..6 : i \in 1..4 \/ i = 5 \/ i = 6
      OBVIOUS
    <2> HIDE DEF s6
    <2> QED BY <1>5, <1>3, <2>1, <2>2
  <1> HIDE DEF s6
  <1>7. /\ s9 \in Seq(Step) /\ Len(s9) = 9
        /\ \A i \in 1..8 : s9[i].do = "read"
        /\ s9[4].file = <<"metadata", "name">> /\ s9[6].file = <<"metadata", "address">>
        /\ s9[9].do = "serve"
    <2>0. /\ s9 \in Seq(Step) /\ Len(s9) = 6 + 3
          /\ \A i \in 1..6 : s9[i] = s6[i]
          /\ \A i \in 1..3 : s9[6 + i] = serve[i]
      <3>1. 6 \in Nat /\ 3 \in Nat
        OBVIOUS
      <3>2. s6 \in Seq(Step) /\ serve \in Seq(Step) /\ Len(s6) = 6 /\ Len(serve) = 3
        BY <1>6, <1>2
      <3> QED BY ONLY <3>1, <3>2, Concatenated, ZenonT(60)
    <2>1. /\ s9 \in Seq(Step) /\ Len(s9) = 9
          /\ \A i \in 1..6 : s9[i] = s6[i]
          /\ s9[7] = serve[1] /\ s9[8] = serve[2] /\ s9[9] = serve[3]
      <3> HIDE DEF s9
      <3>1. s9[6 + 1] = serve[1] /\ s9[6 + 2] = serve[2] /\ s9[6 + 3] = serve[3]
        BY <2>0
      <3> QED BY <2>0, <3>1
    <2>2. \A i \in 1..8 : i \in 1..6 \/ i = 7 \/ i = 8
      OBVIOUS
    <2> HIDE DEF s9
    <2> QED BY <1>6, <1>2, <2>1, <2>2
  <1> HIDE DEF s9
  <1>8. /\ s13 \in Seq(Step) /\ Len(s13) = 13
        /\ \A i \in 1..9 : s13[i] = s9[i]
        /\ \A i \in 1..4 : s13[9 + i] = cn[i]
    <2>1. /\ s13 \in Seq(Step) /\ Len(s13) = 9 + 4
          /\ \A i \in 1..9 : s13[i] = s9[i]
          /\ \A i \in 1..4 : s13[9 + i] = cn[i]
      <3>1. 9 \in Nat /\ 4 \in Nat
        OBVIOUS
      <3>2. s9 \in Seq(Step) /\ cn \in Seq(Step) /\ Len(s9) = 9 /\ Len(cn) = 4
        BY <1>7, <1>4
      <3> QED BY ONLY <3>1, <3>2, Concatenated, ZenonT(60)
    <2> HIDE DEF s13
    <2> QED BY <2>1
  <1> HIDE DEF s13
  <1>9. /\ s17 \in Seq(Step) /\ Len(s17) = 17
        /\ \A i \in 1..13 : s17[i] = s13[i]
        /\ \A i \in 1..4 : s17[13 + i] = ca[i]
    <2>1. /\ s17 \in Seq(Step) /\ Len(s17) = 13 + 4
          /\ \A i \in 1..13 : s17[i] = s13[i]
          /\ \A i \in 1..4 : s17[13 + i] = ca[i]
      <3>1. 13 \in Nat /\ 4 \in Nat
        OBVIOUS
      <3>2. s13 \in Seq(Step) /\ ca \in Seq(Step) /\ Len(s13) = 13 /\ Len(ca) = 4
        BY <1>8, <1>4
      <3> QED BY ONLY <3>1, <3>2, Concatenated, ZenonT(60)
    <2> HIDE DEF s17
    <2> QED BY <2>1
  <1> HIDE DEF s17
  <1>10. \A i \in 10..17 : /\ s17[i].do \in {"truncate", "write"}
                           /\ s17[i].file \in {"metadata", "size"} \X Fields
    <2> TAKE i \in 10..17
    <2>1. CASE i \in 10..13
      <3>1. i - 9 \in 1..4 /\ 9 + (i - 9) = i /\ i \in 1..13
        BY <2>1
      <3> QED BY <3>1, <1>4, <1>8, <1>9
    <2>2. CASE i \in 14..17
      <3>1. i - 13 \in 1..4 /\ 13 + (i - 13) = i
        BY <2>2
      <3> QED BY <3>1, <1>4, <1>9
    <2> QED BY <2>1, <2>2
  <1>11. /\ \A i \in 1..8 : s17[i].do = "read"
         /\ s17[4].file = <<"metadata", "name">> /\ s17[6].file = <<"metadata", "address">>
         /\ s17[9].do = "serve"
    BY <1>7, <1>8, <1>9
  <1> QED BY <1>0, <1>9, <1>10, <1>11

LEMMA IndexerProgram == IndexerSteps \in Seq(Step) /\ Len(IndexerSteps) >= 1
  <1>1. /\ Replace("noisy_model", "all") \in Seq(Step)
        /\ Replace("ngram", "all") \in Seq(Step)
        /\ Replace("meta", "all") \in Seq(Step)
    BY ReplaceSteps, FileNames DEF Shared
  <1>2. <<Do("write", "docs_store", "all"), Do("write", "rtree", "all")>> \in Seq(Step)
    <2>1. Do("write", "docs_store", "all") \in Step /\ Do("write", "rtree", "all") \in Step
      BY StepType, FileNames DEF Shared
    <2> QED BY <2>1
  <1>3. \A f \in Fields : <<Do("append", "metadata", f)>> \in Seq(Step)
    <2>1. \A f \in Fields : Do("append", "metadata", f) \in Step
      BY StepType, FileNames
    <2> QED BY <2>1
  <1>4. /\ CloseSteps("name") \in Seq(Step) /\ CloseSteps("address") \in Seq(Step)
        /\ <<Do("append", "metadata", "name")>> \in Seq(Step)
        /\ <<Do("append", "metadata", "address")>> \in Seq(Step)
    BY <1>3, CloseStepsAre DEF Fields
  <1>5. \A s, t \in Seq(Step) : s \o t \in Seq(Step)
    BY ConcatProperties
  <1> DEFINE before == Replace("noisy_model", "all")
               \o <<Do("write", "docs_store", "all"), Do("write", "rtree", "all")>>
               \o <<Do("append", "metadata", "name")>> \o CloseSteps("name")
               \o <<Do("append", "metadata", "address")>> \o CloseSteps("address")
               \o Replace("ngram", "all")
             last == Replace("meta", "all")
  <1>6. before \in Seq(Step)
    BY ONLY <1>1, <1>2, <1>4, <1>5
  <1>7. last \in Seq(Step) /\ Len(last) = 2
    BY ReplaceSteps, FileNames DEF Shared
  <1>8. IndexerSteps = before \o last
    BY DEF IndexerSteps
  <1> HIDE DEF before, last
  <1>9. before \o last \in Seq(Step) /\ Len(before \o last) = Len(before) + Len(last)
    BY <1>6, <1>7, ConcatProperties
  <1>10. Len(before) \in Nat
    BY <1>6
  <1> QED BY <1>7, <1>8, <1>9, <1>10

\* Where a program is, and which file its step is about.
LEMMA ProgramStep ==
  ASSUME TypeOK, NEW p \in Procs, pc[p] # 0
  PROVE  /\ File(p) \in Files
         /\ pc[p] \in 1..Len(Program(p))
         /\ NextPc(p) \in Nat /\ NextPc(p) <= Len(Program(p))
  <1>1. Program(p) \in Seq(Step)
    BY IndexerProgram, ServerProgram DEF Program
  <1>2. pc[p] \in 1..Len(Program(p)) /\ Len(Program(p)) \in Nat
    BY <1>1 DEF TypeOK, PcType
  <1>3. Program(p)[pc[p]] \in Step
    BY <1>1, <1>2
  <1>4. File(p) \in Files
    BY <1>3 DEF File, Step
  <1> QED BY <1>2, <1>4 DEF NextPc

-----------------------------------------------------------------------------
(* What the steps have in common                                           *)

LEMMA FilesOf ==
  \A f \in Fields : /\ <<"metadata", f>> \in Files /\ <<"metadata", f>>[2] # "all"
                    /\ <<"metadata", f>>[1] = "metadata" /\ <<"metadata", f>>[2] = f
  BY DEF Files, Fields

\* A content of a metadata file is empty or metadata.
LEMMA MetadataFits ==
  ASSUME NEW f \in Fields, NEW c, Fits(<<"metadata", f>>, c)
  PROVE  c = Empty \/ IsMetadata(c)
  BY FilesOf DEF Fits

\* A server that rewrites a file has loaded the metadata of both fields.
LEMMA ClosingServer ==
  ASSUME IInv, At("server", "truncate") \/ At("server", "write")
  PROVE  /\ pc["server"] > 6
         /\ \A f \in Fields : IsMetadata(HeldMetadata("server", f))
  <1>1. pc["server"] \in 1..17
    BY ServerProgram, ProgramStep DEF IInv, At, Program, Procs
  <1>2. ServerSteps[pc["server"]].do \in {"truncate", "write"}
    BY DEF At, Program
  <1>3. ~(pc["server"] \in 1..8) /\ pc["server"] # 9
    BY <1>2, ServerProgram
  <1>4. pc["server"] > 6
    BY <1>1, <1>3
  <1>5. /\ IsMetadata(HeldMetadata("server", "name"))
        /\ IsMetadata(HeldMetadata("server", "address"))
    <2>1. pc["server"] > 4
      BY <1>1, <1>4
    <2> QED BY <1>4, <2>1 DEF IInv, MetadataLoaded
  <1> QED BY <1>4, <1>5 DEF Fields

\* A move within or out of a program; memory and index are left alone.
LEMMA Moves ==
  ASSUME IInv, NEW p \in Procs, NEW k \in Nat, k <= Len(Program(p)), pc[p] # 0,
         p = "server" => k = 0 \/ pc["server"] > 6,
         pc' = [pc EXCEPT ![p] = k], UNCHANGED <<held, run, index>>
  PROVE  PcType' /\ HeldType' /\ HeldInPlace' /\ OfThisRun' /\ MetadataLoaded'
  <1>1. pc \in [Procs -> Nat] /\ \A q \in Procs : pc[q] <= Len(Program(q))
    BY DEF IInv, TypeOK, PcType
  <1>2. /\ pc' \in [Procs -> Nat]
        /\ \A q \in Procs : pc'[q] = IF q = p THEN k ELSE pc[q]
    BY <1>1
  <1>3. \A q \in Procs : pc'[q] <= Len(Program(q))
    BY <1>1, <1>2
  <1>4. \A q, f : HeldMetadata(q, f)' = HeldMetadata(q, f)
    BY DEF HeldMetadata
  <1>5. pc'["indexer"] # 0 => pc["indexer"] # 0
    BY <1>2 DEF Procs
  <1>6. \A f, md : InPlace(f, md)' <=> InPlace(f, md)
    BY DEF InPlace
  <1>7. HeldType'
    BY DEF IInv, TypeOK, HeldType
  <1>8. HeldInPlace'
    BY <1>4, <1>6 DEF IInv, HeldInPlace, HeldMetadata, InPlace
  <1>9. OfThisRun'
    BY <1>4, <1>5, <1>6 DEF IInv, OfThisRun, HeldMetadata, InPlace
  <1>10. /\ pc'["server"] > 4 => pc["server"] > 4
         /\ pc'["server"] > 6 => pc["server"] > 6
    BY <1>1, <1>2 DEF Procs
  <1>11. MetadataLoaded'
    BY <1>4, <1>10 DEF IInv, MetadataLoaded, HeldMetadata
  <1> QED BY <1>2, <1>3, <1>7, <1>8, <1>9, <1>11 DEF PcType

LEMMA DiskUnchanged ==
  ASSUME IInv, UNCHANGED <<disk, index>>  PROVE DiskType' /\ PostingsInPlace'
  <1>1. DiskType'
    BY DEF IInv, TypeOK, DiskType
  <1>2. PostingsInPlace'
    BY DEF IInv, PostingsInPlace, InPlace
  <1> QED BY <1>1, <1>2

-----------------------------------------------------------------------------
(* The steps                                                               *)

LEMMA TruncateKeeps ==
  ASSUME IInv, NEW p \in Procs, Truncate(p)  PROVE IInv'
  <1>1. pc[p] # 0
    BY DEF Truncate, At
  <1>2. File(p) \in Files /\ NextPc(p) \in Nat /\ NextPc(p) <= Len(Program(p))
    BY <1>1, ProgramStep DEF IInv
  <1>3. p = "server" => pc["server"] > 6
    BY ClosingServer DEF Truncate
  <1>4. PICK k \in Nat : k = NextPc(p)
    BY <1>2
  <1>5. PcType' /\ HeldType' /\ HeldInPlace' /\ OfThisRun' /\ MetadataLoaded'
    BY <1>1, <1>2, <1>3, <1>4, Moves DEF Truncate
  <1>6. /\ disk' = [x \in Files |-> disk'[x]]
        /\ \A x \in Files : disk'[x] = Empty \/ disk'[x] = disk[x]
    BY <1>2 DEF Truncate, IInv, TypeOK, DiskType
  <1>7. \A x \in Files : Fits(x, disk'[x])
    BY <1>6 DEF IInv, TypeOK, DiskType, Fits
  <1>8. DiskType'
    BY <1>6, <1>7 DEF DiskType
  <1>9. TypeOK'
    BY <1>5, <1>8 DEF Truncate, IInv, TypeOK
  <1>10. PostingsInPlace'
    BY <1>6, FilesOf DEF Truncate, IInv, PostingsInPlace, InPlace
  <1> QED BY <1>5, <1>9, <1>10 DEF IInv

LEMMA WriteKeeps ==
  ASSUME IInv, NEW p \in Procs, Write(p)  PROVE IInv'
  <1>1. pc[p] # 0
    BY DEF Write, At
  <1>2. File(p) \in Files /\ NextPc(p) \in Nat /\ NextPc(p) <= Len(Program(p))
    BY <1>1, ProgramStep DEF IInv
  <1>3. p = "server" => pc["server"] > 6
    BY ClosingServer DEF Write
  <1>4. PICK k \in Nat : k = NextPc(p)
    BY <1>2
  <1>5. PcType' /\ HeldType' /\ HeldInPlace' /\ OfThisRun' /\ MetadataLoaded'
    BY <1>1, <1>2, <1>3, <1>4, Moves DEF Write
  <1>6. \A f \in Fields :
          /\ IsMetadata(HeldMetadata(p, f))
          /\ HeldMetadata(p, f) # Empty => InPlace(f, HeldMetadata(p, f))
    BY <1>1, ClosingServer DEF Write, IInv, OfThisRun, HeldInPlace, Procs
  <1>7. PICK x : x = File(p)
    OBVIOUS
  <1>8. PICK c : c = Output(p, x)
    OBVIOUS
  <1>9. x \in Files /\ disk' = [disk EXCEPT ![x] = c]
    BY <1>2, <1>7, <1>8 DEF Write
  <1>10. Fits(x, c)
    <2>1. CASE x[1] = "size"
      <3>1. x[2] \in Fields
        BY <1>9, <2>1, FileNames
      <3>2. PICK md : md = HeldMetadata(p, x[2])
        OBVIOUS
      <3>3. IsMetadata(md)
        BY <1>6, <3>1, <3>2
      <3>4. c = 1 + Cardinality(DOMAIN md.pos)
        BY <1>8, <2>1, <3>2 DEF Output, MetadataSize, HeldMetadata
      <3>5. Cardinality(DOMAIN md.pos) \in Nat
        BY <3>3, FS_CardinalityType DEF IsMetadata
      <3>6. c \in Nat \ {0}
        BY <3>4, <3>5
      <3> QED BY <2>1, <3>6 DEF Fits
    <2>2. CASE x[1] # "size"
      BY <1>8, <1>9, <2>2 DEF Output, IInv, TypeOK, HeldType
    <2> QED BY <2>1, <2>2
  <1>11. /\ disk' = [y \in Files |-> disk'[y]]
         /\ \A y \in Files : disk'[y] = IF y = x THEN c ELSE disk[y]
    BY <1>9 DEF IInv, TypeOK, DiskType
  <1>12. DiskType'
    <2>1. \A y \in Files : Fits(y, disk'[y])
      BY <1>10, <1>11 DEF IInv, TypeOK, DiskType
    <2> QED BY <1>11, <2>1 DEF DiskType
  <1>13. TypeOK'
    <2>1. complete' \in BOOLEAN
      BY DEF Write, IInv, TypeOK
    <2> QED BY <1>5, <1>12, <2>1 DEF Write, IInv, TypeOK
  <1>14. ASSUME NEW f \in Fields, disk'[<<"metadata", f>>] # Empty
         PROVE  InPlace(f, disk'[<<"metadata", f>>])
    <2>1. CASE x = <<"metadata", f>>
      <3>1. c = HeldMetadata(p, f)
        BY <1>8, <2>1, FilesOf DEF Output, HeldMetadata
      <3>2. disk'[<<"metadata", f>>] = HeldMetadata(p, f)
        BY <1>11, <2>1, <3>1, FilesOf
      <3> QED BY <1>6, <1>14, <3>2
    <2>2. CASE x # <<"metadata", f>>
      <3>1. disk'[<<"metadata", f>>] = disk[<<"metadata", f>>]
        BY <1>11, <2>2, FilesOf
      <3> QED BY <3>1, <1>14 DEF IInv, PostingsInPlace
    <2> QED BY <2>1, <2>2
  <1>15. PostingsInPlace'
    BY <1>14 DEF Write, PostingsInPlace, InPlace
  <1> QED BY <1>5, <1>13, <1>15 DEF IInv

LEMMA KillKeeps ==
  ASSUME IInv, NEW p \in Procs, Kill(p)  PROVE IInv'
  <1>1. Len(Program(p)) \in Nat
    BY IndexerProgram, ServerProgram DEF Program
  <1>2. PcType' /\ HeldType' /\ HeldInPlace' /\ OfThisRun' /\ MetadataLoaded'
    <2>1. PICK k \in Nat : k = 0
      OBVIOUS
    <2>2. k <= Len(Program(p))
      BY <1>1, <2>1
    <2>3. pc[p] # 0 /\ pc' = [pc EXCEPT ![p] = k] /\ UNCHANGED <<held, run, index>>
      BY <2>1 DEF Kill
    <2> QED BY <2>1, <2>2, <2>3, Moves
  <1>3. cut' \in BOOLEAN
    BY DEF Kill, IInv, TypeOK
  <1>4. TypeOK'
    BY <1>2, <1>3, DiskUnchanged DEF Kill, IInv, TypeOK
  <1> QED BY <1>2, <1>4, DiskUnchanged DEF Kill, IInv

LEMMA EndMergeKeeps ==
  ASSUME IInv, EndMerge  PROVE IInv'
  <1>1. pc["indexer"] # 0 /\ "indexer" \in Procs
    BY DEF EndMerge, At, Procs
  <1>2. NextPc("indexer") \in Nat /\ NextPc("indexer") <= Len(Program("indexer"))
    BY <1>1, ProgramStep DEF IInv
  <1>3. PICK k \in Nat : k = NextPc("indexer")
    BY <1>2
  <1>4. PcType' /\ HeldType' /\ HeldInPlace' /\ OfThisRun' /\ MetadataLoaded'
    BY <1>1, <1>2, <1>3, Moves DEF EndMerge
  <1>5. TypeOK'
    BY <1>4, DiskUnchanged DEF EndMerge, IInv, TypeOK
  <1> QED BY <1>4, <1>5, DiskUnchanged DEF EndMerge, IInv

LEMMA ShutdownKeeps ==
  ASSUME IInv, Shutdown  PROVE IInv'
  <1>1. pc["server"] # 0 /\ "server" \in Procs
    BY DEF Shutdown, At, Procs
  <1>2. pc["server"] \in 1..17
    BY <1>1, ServerProgram, ProgramStep DEF IInv, Program
  <1>3. ServerSteps[pc["server"]].do = "serve"
    BY DEF Shutdown, At, Program
  <1>4. pc["server"] = 9
    <2>1. ~(pc["server"] \in 1..8)
      BY <1>3, ServerProgram
    <2>2. ~(pc["server"] \in 10..17)
      BY <1>3, ServerProgram
    <2> QED BY <1>2, <2>1, <2>2
  <1>5. PICK k \in Nat : k = 10
    OBVIOUS
  <1>6. /\ k <= Len(Program("server"))
        /\ pc' = [pc EXCEPT !["server"] = k]
        /\ pc["server"] > 6
    <2>1. Len(Program("server")) = 17
      BY ServerProgram DEF Program
    <2>2. pc["server"] + 1 = k
      BY <1>4, <1>5
    <2>3. pc' = [pc EXCEPT !["server"] = pc["server"] + 1]
      BY DEF Shutdown
    <2>4. pc["server"] > 6
      BY <1>2, <1>4
    <2>5. k <= Len(Program("server"))
      <3>1. k <= 17
        BY <1>5
      <3> QED BY <3>1, <2>1
    <2> QED BY <2>2, <2>3, <2>4, <2>5
  <1>7. PcType' /\ HeldType' /\ HeldInPlace' /\ OfThisRun' /\ MetadataLoaded'
    BY <1>1, <1>6, Moves DEF Shutdown
  <1>8. TypeOK'
    BY <1>7, DiskUnchanged DEF Shutdown, IInv, TypeOK
  <1> QED BY <1>7, <1>8, DiskUnchanged DEF Shutdown, IInv

\* The server ends without a change on disk, its memory given up.
LEMMA ServerStops ==
  ASSUME IInv, NEW o \in {"refused", "panicked"}, Stop(o), pc["server"] # 0,
         UNCHANGED <<disk, index, run, appended, complete, cut>>
  PROVE  IInv'
  <1>1. pc \in [Procs -> Nat] /\ \A q \in Procs : pc[q] <= Len(Program(q))
    BY DEF IInv, TypeOK, PcType
  <1>2. /\ pc' \in [Procs -> Nat] /\ pc'["server"] = 0
        /\ pc'["indexer"] = pc["indexer"]
    BY <1>1 DEF Stop, Procs
  <1>3. PcType'
    <2>1. \A q \in Procs : Len(Program(q)) \in Nat
      BY IndexerProgram, ServerProgram DEF Program
    <2>2. \A q \in Procs : pc'[q] <= Len(Program(q))
      BY <1>1, <1>2, <2>1 DEF Procs
    <2> QED BY <1>2, <2>2 DEF PcType
  <1>4. /\ held' = [p \in Procs |-> [x \in Files |-> held'[p][x]]]
        /\ \A x \in Files : held'["server"][x] = Empty
        /\ \A x \in Files : held'["indexer"][x] = held["indexer"][x]
    BY DEF Stop, IInv, TypeOK, HeldType, Procs
  <1>5. HeldType'
    <2>1. \A p \in Procs, x \in Files : Fits(x, held'[p][x])
      BY <1>4 DEF IInv, TypeOK, HeldType, Fits, Procs
    <2> QED BY <1>4, <2>1 DEF HeldType
  <1>6. TypeOK'
    BY <1>3, <1>5, DiskUnchanged DEF Stop, IInv, TypeOK
  <1>7. /\ \A f \in Fields : HeldMetadata("indexer", f)' = HeldMetadata("indexer", f)
        /\ \A f \in Fields : HeldMetadata("server", f)' = Empty
    BY <1>4, FilesOf DEF HeldMetadata
  <1>8. OfThisRun'
    BY <1>2, <1>7 DEF IInv, OfThisRun, InPlace
  <1>9. MetadataLoaded'
    BY <1>2 DEF MetadataLoaded
  <1>10. HeldInPlace'
    BY <1>7 DEF HeldInPlace
  <1> QED BY <1>6, <1>8, <1>9, <1>10, DiskUnchanged DEF IInv

LEMMA LoadKeeps ==
  ASSUME IInv, Load  PROVE IInv'
  <1>1. pc["server"] # 0 /\ "server" \in Procs
    BY DEF Load, At, Procs
  <1>2. PICK x : x = File("server")
    OBVIOUS
  <1>3. PICK c : c = disk[x]
    OBVIOUS
  <1>4. PICK i : i = pc["server"]
    OBVIOUS
  <1>5. x \in Files /\ i \in 1..17
    BY <1>1, <1>2, <1>4, ServerProgram, ProgramStep DEF IInv, Program
  <1>6. i \in 1..8
    <2>1. ServerSteps[i].do = "read"
      BY <1>4 DEF Load, At, Program
    <2>2. i # 9 /\ ~(i \in 10..17)
      BY <2>1, ServerProgram
    <2> QED BY <1>5, <2>2
  <1>7. c # Empty /\ Fits(x, c)
    BY <1>2, <1>3, <1>5 DEF Load, IInv, TypeOK, DiskType
  <1>8. /\ held' = [held EXCEPT !["server"][x] = c]
        /\ pc' = [pc EXCEPT !["server"] = i + 1]
    BY <1>2, <1>3, <1>4 DEF Load
  <1>9. /\ held' = [p \in Procs |-> [y \in Files |-> held'[p][y]]]
        /\ \A y \in Files : held'["server"][y] = IF y = x THEN c ELSE held["server"][y]
        /\ \A y \in Files : held'["indexer"][y] = held["indexer"][y]
    BY <1>5, <1>8 DEF IInv, TypeOK, HeldType, Procs
  <1>10. HeldType'
    <2>1. \A p \in Procs, y \in Files : Fits(y, held'[p][y])
      BY <1>7, <1>9 DEF IInv, TypeOK, HeldType, Procs
    <2> QED BY <1>9, <2>1 DEF HeldType
  <1>11. /\ pc' \in [Procs -> Nat] /\ pc'["server"] = i + 1
         /\ pc'["indexer"] = pc["indexer"]
    <2>1. PICK k \in Nat : k = i + 1
      BY <1>5
    <2>2. pc' = [pc EXCEPT !["server"] = k]
      BY <1>8, <2>1
    <2>3. pc \in [Procs -> Nat]
      BY DEF IInv, TypeOK, PcType
    <2> QED BY <2>1, <2>2, <2>3 DEF Procs
  <1>12. PcType'
    <2>1. pc'["server"] <= Len(Program("server"))
      <3>1. i + 1 <= 17
        BY <1>6
      <3>2. Len(Program("server")) = 17
        BY ServerProgram DEF Program
      <3> QED BY <1>11, <3>1, <3>2
    <2>2. pc'["indexer"] <= Len(Program("indexer"))
      BY <1>11 DEF IInv, TypeOK, PcType, Procs
    <2> QED BY <1>11, <2>1, <2>2 DEF PcType, Procs
  <1>13. TypeOK'
    <2>1. outcome' \in {"none", "up", "refused", "panicked"}
      BY DEF Load, IInv, TypeOK
    <2> QED BY <1>10, <1>12, <2>1, DiskUnchanged DEF Load, IInv, TypeOK
  <1>14. \A f \in Fields :
           /\ HeldMetadata("indexer", f)' = HeldMetadata("indexer", f)
           /\ HeldMetadata("server", f)' =
                IF <<"metadata", f>> = x THEN c ELSE HeldMetadata("server", f)
    BY <1>9, FilesOf DEF HeldMetadata
  <1>15. \A f, md : InPlace(f, md)' <=> InPlace(f, md)
    BY DEF Load, InPlace
  <1>16. HeldInPlace'
    <2> SUFFICES ASSUME NEW f \in Fields, HeldMetadata("server", f)' # Empty
                 PROVE  InPlace(f, HeldMetadata("server", f))'
      BY DEF HeldInPlace
    <2>1. PICK md : md = HeldMetadata("server", f)'
      OBVIOUS
    <2>2. InPlace(f, md)
      <3>1. CASE <<"metadata", f>> = x
        <4>1. md = disk[<<"metadata", f>>]
          BY <1>3, <1>14, <2>1, <3>1
        <4> QED BY <1>3, <1>7, <3>1, <4>1 DEF IInv, PostingsInPlace
      <3>2. CASE <<"metadata", f>> # x
        <4>1. HeldMetadata("server", f) = md
          BY <1>14, <2>1, <3>2
        <4> QED BY <4>1, <2>1 DEF IInv, HeldInPlace
      <3> QED BY <3>1, <3>2
    <2>3. InPlace(f, md)'
      BY <1>15, <2>2
    <2> QED BY <2>1, <2>3 DEF InPlace
  <1>17. OfThisRun'
    BY <1>11, <1>14 DEF Load, IInv, OfThisRun, InPlace
  <1>18. MetadataLoaded'
    <2>1. ASSUME NEW f \in Fields, <<"metadata", f>> = x
          PROVE  IsMetadata(HeldMetadata("server", f)')
      BY <1>7, <1>14, <2>1, MetadataFits
    <2>2. ASSUME NEW f \in Fields, IsMetadata(HeldMetadata("server", f))
          PROVE  IsMetadata(HeldMetadata("server", f)')
      <3>1. HeldMetadata("server", f)' = HeldMetadata("server", f)
                \/ <<"metadata", f>> = x
        BY <1>14
      <3> QED BY <3>1, <2>1, <2>2
    <2>3. i = 4 => x = <<"metadata", "name">>
      BY <1>2, <1>4, ServerProgram DEF File, Program
    <2>4. i = 6 => x = <<"metadata", "address">>
      BY <1>2, <1>4, ServerProgram DEF File, Program
    <2>5. i + 1 > 4 => i = 4 \/ i > 4
      BY <1>6
    <2>6. i + 1 > 6 => i = 6 \/ i > 6
      BY <1>6
    <2>7. "name" \in Fields /\ "address" \in Fields
      BY DEF Fields
    <2>8. i + 1 > 4 => IsMetadata(HeldMetadata("server", "name")')
      BY <1>4, <2>1, <2>2, <2>3, <2>5, <2>7 DEF IInv, MetadataLoaded
    <2>9. i + 1 > 6 => IsMetadata(HeldMetadata("server", "address")')
      BY <1>4, <2>1, <2>2, <2>4, <2>6, <2>7 DEF IInv, MetadataLoaded
    <2> QED BY <1>11, <2>8, <2>9 DEF MetadataLoaded
  <1> QED BY <1>13, <1>16, <1>17, <1>18, DiskUnchanged DEF Load, IInv

\* An append leaves what is in place where it is, and is itself in place.
LEMMA AppendInPlace ==
  ASSUME IInv, NEW f \in Fields, NEW e, index' = [index EXCEPT ![f] = Append(@, e)]
  PROVE  /\ \A md : \A g \in Fields : InPlace(g, md) => InPlace(g, md)'
         /\ index'[f][Len(index[f]) + 1] = e
         /\ Len(index[f]) + 1 \in DOMAIN index'[f]
         /\ Len(index[f]) + 1 \in Nat \ {0}
  <1>1. PICK S : index \in [Fields -> Seq(S)]
    BY DEF IInv, TypeOK
  <1>2. /\ index[f] \in Seq(S)
        /\ \A g \in Fields : index'[g] = IF g = f THEN Append(index[f], e) ELSE index[g]
    BY <1>1
  <1>3. PICK s : s = index[f]
    OBVIOUS
  <1>4. /\ \A k \in DOMAIN s : k \in DOMAIN Append(s, e) /\ Append(s, e)[k] = s[k]
        /\ Len(s) + 1 \in DOMAIN Append(s, e)
        /\ Append(s, e)[Len(s) + 1] = e
        /\ Len(s) + 1 \in Nat \ {0}
    BY <1>2, <1>3
  <1>5. \A g \in Fields : \A k \in DOMAIN index[g] :
          k \in DOMAIN index'[g] /\ index'[g][k] = index[g][k]
    BY <1>2, <1>3, <1>4
  <1>6. \A md : \A g \in Fields : InPlace(g, md) => InPlace(g, md)'
    BY <1>5 DEF InPlace
  <1> QED BY <1>2, <1>3, <1>4, <1>6

LEMMA AppendPostingListKeeps ==
  ASSUME IInv, NEW f \in Fields, AppendPostingList(f)  PROVE IInv'
  <1>1. pc["indexer"] # 0 /\ "indexer" \in Procs
    BY DEF AppendPostingList, At, Procs
  <1>2. PICK md : md = HeldMetadata("indexer", f)
    OBVIOUS
  <1>3. PICK t : t = Vocabulary[run][appended + 1]
    OBVIOUS
  <1>4. PICK at : at = Len(index[f]) + 1
    OBVIOUS
  <1>5. PICK new : new = [md EXCEPT !.pos =
          [u \in DOMAIN md.pos \cup {t} |-> IF u = t THEN at ELSE md.pos[u]]]
    OBVIOUS
  <1>6. /\ IsMetadata(md) /\ md.run = run /\ run \in Runs /\ InPlace(f, md)
    BY <1>1, <1>2 DEF IInv, OfThisRun
  <1>7. /\ index' = [index EXCEPT ![f] = Append(@, [run |-> run, term |-> t])]
        /\ held' = [held EXCEPT !["indexer"][<<"metadata", f>>] = new]
    BY <1>2, <1>3, <1>4, <1>5 DEF AppendPostingList, HeldMetadata, StartPosition
  <1>8. PICK e : e = [run |-> run, term |-> t]
    OBVIOUS
  <1>9. /\ \A m : \A g \in Fields : InPlace(g, m) => InPlace(g, m)'
        /\ index'[f][at] = e /\ at \in DOMAIN index'[f] /\ at \in Nat \ {0}
    BY <1>4, <1>7, <1>8, AppendInPlace
  <1>10. t \in Terms
    <2>1. appended + 1 \in DOMAIN Vocabulary[run]
      <3>1. Vocabulary[run] \in Seq(Terms) /\ appended \in Nat
        BY <1>6, IndexFilesAssumption DEF IInv, TypeOK, Runs
      <3> QED BY <3>1 DEF AppendPostingList
    <2>2. Vocabulary[run] \in Seq(Terms)
      BY <1>6, IndexFilesAssumption DEF Runs
    <2> QED BY <1>3, <2>1, <2>2
  <1>11. IsMetadata(new) /\ new.run = run /\ DOMAIN new.pos = DOMAIN md.pos \cup {t}
         /\ \A u \in DOMAIN new.pos : new.pos[u] = IF u = t THEN at ELSE md.pos[u]
    <2>1. PICK pos : pos = [u \in DOMAIN md.pos \cup {t} |->
                              IF u = t THEN at ELSE md.pos[u]]
      OBVIOUS
    <2>2. /\ md = [run |-> md.run, pos |-> md.pos]
          /\ DOMAIN md.pos \subseteq Terms /\ IsFiniteSet(DOMAIN md.pos)
          /\ md.pos \in [DOMAIN md.pos -> Nat \ {0}]
      BY <1>6 DEF IsMetadata
    <2>3. new = [run |-> run, pos |-> pos]
      BY <1>5, <1>6, <2>1, <2>2
    <2>4. DOMAIN pos = DOMAIN md.pos \cup {t} /\ pos \in [DOMAIN pos -> Nat \ {0}]
      BY <1>9, <2>1, <2>2
    <2>5. DOMAIN pos \subseteq Terms
      BY <1>10, <2>2, <2>4
    <2>6. IsFiniteSet(DOMAIN pos)
      BY <2>2, <2>4, FS_AddElement
    <2>7. new.run = run /\ new.pos = pos
      BY <2>3
    <2>8. IsMetadata(new)
      BY <1>6, <2>3, <2>4, <2>5, <2>6, <2>7 DEF IsMetadata
    <2> QED BY <2>1, <2>4, <2>7, <2>8
  <1>12. InPlace(f, new)'
    <2>1. InPlace(f, md)'
      BY <1>6, <1>9
    <2>2. ASSUME NEW u \in DOMAIN new.pos
          PROVE  /\ new.pos[u] \in DOMAIN index'[f]
                 /\ index'[f][new.pos[u]] = [run |-> new.run, term |-> u]
      <3>1. CASE u = t
        BY <1>8, <1>9, <1>11, <3>1
      <3>2. CASE u # t
        <4>1. u \in DOMAIN md.pos /\ new.pos[u] = md.pos[u]
          BY <1>11, <3>2
        <4> QED BY <1>6, <1>11, <2>1, <4>1 DEF InPlace
      <3> QED BY <3>1, <3>2
    <2> QED BY <2>2 DEF InPlace
  <1>13. /\ held' = [p \in Procs |-> [x \in Files |-> held'[p][x]]]
         /\ \A x \in Files : held'["indexer"][x] =
              IF x = <<"metadata", f>> THEN new ELSE held["indexer"][x]
         /\ \A x \in Files : held'["server"][x] = held["server"][x]
    <2>1. PICK x : x = <<"metadata", f>>
      OBVIOUS
    <2>2. x \in Files /\ held' = [held EXCEPT !["indexer"][x] = new]
      BY <1>7, <2>1, FilesOf
    <2>3. /\ held' = [p \in Procs |-> [y \in Files |-> held'[p][y]]]
          /\ \A y \in Files : held'["indexer"][y] = IF y = x THEN new ELSE held["indexer"][y]
          /\ \A y \in Files : held'["server"][y] = held["server"][y]
      BY <2>2 DEF IInv, TypeOK, HeldType, Procs
    <2> QED BY <2>1, <2>3
  <1>14. HeldType'
    <2>1. Fits(<<"metadata", f>>, new)
      BY <1>11 DEF Fits
    <2>2. \A p \in Procs, x \in Files : Fits(x, held'[p][x])
      BY <1>13, <2>1 DEF IInv, TypeOK, HeldType, Procs
    <2> QED BY <1>13, <2>2 DEF HeldType
  <1>15. TypeOK'
    <2>1. index' \in [Fields -> Seq([run: Runs, term: Terms])]
      <3>1. e \in [run: Runs, term: Terms]
        BY <1>6, <1>8, <1>10
      <3>2. PICK S : S = [run: Runs, term: Terms]
        OBVIOUS
      <3>3. index \in [Fields -> Seq(S)] /\ e \in S
        BY <3>1, <3>2 DEF IInv, TypeOK
      <3>4. index' \in [Fields -> Seq(S)]
        BY ONLY <1>7, <1>8, <3>3
      <3> QED BY <3>2, <3>4
    <2>2. DiskType' /\ PcType'
      BY DEF AppendPostingList, IInv, TypeOK, DiskType, PcType
    <2>3. appended' \in Nat
      BY DEF AppendPostingList, IInv, TypeOK
    <2>4. UNCHANGED <<run, outcome, complete, cut>>
      BY DEF AppendPostingList
    <2> QED BY <1>14, <2>1, <2>2, <2>3, <2>4 DEF IInv, TypeOK
  <1>16. \A g \in Fields :
           /\ HeldMetadata("indexer", g)' =
                IF g = f THEN new ELSE HeldMetadata("indexer", g)
           /\ HeldMetadata("server", g)' = HeldMetadata("server", g)
    BY <1>13, FilesOf DEF HeldMetadata
  <1>17. PostingsInPlace'
    <2> SUFFICES ASSUME NEW g \in Fields, disk[<<"metadata", g>>] # Empty
                 PROVE  InPlace(g, disk[<<"metadata", g>>])'
      BY DEF AppendPostingList, PostingsInPlace, InPlace
    <2>1. PICK m : m = disk[<<"metadata", g>>]
      OBVIOUS
    <2>2. InPlace(g, m)'
      BY <1>9, <2>1 DEF IInv, PostingsInPlace
    <2> QED BY <2>1, <2>2 DEF AppendPostingList, InPlace
  <1>18. HeldInPlace'
    <2> SUFFICES ASSUME NEW g \in Fields, HeldMetadata("server", g) # Empty
                 PROVE  InPlace(g, HeldMetadata("server", g))'
      BY <1>16 DEF HeldInPlace
    <2>1. PICK m : m = HeldMetadata("server", g)
      OBVIOUS
    <2>2. InPlace(g, m)'
      BY <1>9, <2>1 DEF IInv, HeldInPlace
    <2> QED BY <1>16, <2>1, <2>2 DEF InPlace
  <1>19. OfThisRun'
    <2>1. ASSUME NEW g \in Fields
          PROVE  /\ IsMetadata(HeldMetadata("indexer", g)')
                 /\ HeldMetadata("indexer", g)'.run = run
                 /\ InPlace(g, HeldMetadata("indexer", g))'
      <3>1. CASE g = f
        BY <1>11, <1>12, <1>16, <3>1 DEF InPlace
      <3>2. CASE g # f
        <4>1. PICK m : m = HeldMetadata("indexer", g)
          OBVIOUS
        <4>2. IsMetadata(m) /\ m.run = run /\ InPlace(g, m)
          BY <1>1, <4>1 DEF IInv, OfThisRun
        <4>3. InPlace(g, m)'
          BY <1>9, <4>2
        <4>4. HeldMetadata("indexer", g)' = m
          BY <1>16, <3>2, <4>1
        <4> QED BY <4>2, <4>3, <4>4 DEF InPlace
      <3> QED BY <3>1, <3>2
    <2> QED BY <1>6, <2>1 DEF AppendPostingList, OfThisRun
  <1>20. MetadataLoaded'
    BY <1>16 DEF AppendPostingList, IInv, MetadataLoaded, Fields
  <1> QED BY <1>15, <1>17, <1>18, <1>19, <1>20 DEF IInv

LEMMA NoMetadataYet ==
  ASSUME NEW r \in Runs
  PROVE  /\ IsMetadata([run |-> r, pos |-> <<>>])
         /\ [run |-> r, pos |-> <<>>].run = r
         /\ \A f \in Fields : InPlace(f, [run |-> r, pos |-> <<>>])
  <1>1. PICK md : md = [run |-> r, pos |-> <<>>]
    OBVIOUS
  <1>2. DOMAIN md.pos = {} /\ md.run = r /\ md = [run |-> md.run, pos |-> md.pos]
    BY <1>1
  <1>3. md.pos \in [DOMAIN md.pos -> Nat \ {0}]
    BY <1>1, <1>2
  <1>4. IsMetadata(md)
    BY <1>2, <1>3, FS_EmptySet DEF IsMetadata
  <1>5. \A f \in Fields : InPlace(f, md)
    BY <1>2 DEF InPlace
  <1> QED BY <1>1, <1>2, <1>4, <1>5

LEMMA StartIndexerKeeps ==
  ASSUME IInv, StartIndexer  PROVE IInv'
  <1>1. PICK r : r = run + 1
    OBVIOUS
  <1>2. r \in Runs /\ run' = r
    BY <1>1, IndexFilesAssumption DEF StartIndexer, IInv, TypeOK, Runs
  <1>3. PICK md : md = [run |-> r, pos |-> <<>>]
    OBVIOUS
  <1>4. IsMetadata(md) /\ md.run = r /\ \A f \in Fields : InPlace(f, md)
    BY <1>2, <1>3, NoMetadataYet
  <1>5. /\ held' = [p \in Procs |-> [x \in Files |-> held'[p][x]]]
        /\ \A x \in Files : held'["server"][x] = held["server"][x]
        /\ \A x \in Files : \/ x[1] = "metadata" /\ held'["indexer"][x] = md
                            \/ x[1] = "size" /\ held'["indexer"][x] = Empty
                            \/ x[1] \notin {"metadata", "size"} /\ held'["indexer"][x] = r
    BY <1>1, <1>3 DEF StartIndexer, IInv, TypeOK, HeldType, Procs
  <1>6. HeldType'
    <2>1. \A x \in Files : x[1] \in {"metadata", "size"} \/ x[2] = "all"
      BY DEF Files
    <2>2. \A x \in Files : Fits(x, held'["indexer"][x])
      BY <1>2, <1>4, <1>5, <2>1 DEF Fits
    <2>3. \A x \in Files : Fits(x, held'["server"][x])
      BY <1>5 DEF IInv, TypeOK, HeldType, Procs
    <2> QED BY <1>5, <2>2, <2>3 DEF HeldType, Procs
  <1>7. /\ pc' \in [Procs -> Nat] /\ pc'["indexer"] = 1 /\ pc'["server"] = pc["server"]
    BY DEF StartIndexer, IInv, TypeOK, PcType, Procs
  <1>8. PcType'
    <2>1. 1 <= Len(Program("indexer"))
      BY IndexerProgram DEF Program
    <2>2. pc'["server"] <= Len(Program("server"))
      BY <1>7 DEF IInv, TypeOK, PcType, Procs
    <2> QED BY <1>7, <2>1, <2>2 DEF PcType, Procs
  <1>9. TypeOK'
    <2>1. run' \in 0..MaxRuns
      BY <1>2, IndexFilesAssumption DEF Runs
    <2> QED BY <1>6, <1>8, <2>1, DiskUnchanged DEF StartIndexer, IInv, TypeOK
  <1>10. \A f \in Fields : /\ HeldMetadata("indexer", f)' = md
                           /\ HeldMetadata("server", f)' = HeldMetadata("server", f)
    BY <1>5, FilesOf DEF HeldMetadata
  <1>11. OfThisRun'
    <2>1. \A f \in Fields : InPlace(f, md)'
      BY <1>4 DEF StartIndexer, InPlace
    <2>2. \A f \in Fields : InPlace(f, HeldMetadata("indexer", f))'
      BY <1>10, <2>1 DEF InPlace
    <2> QED BY <1>2, <1>4, <1>10, <2>2 DEF OfThisRun
  <1>12. HeldInPlace'
    BY <1>10 DEF StartIndexer, IInv, HeldInPlace, InPlace
  <1>13. MetadataLoaded'
    BY <1>7, <1>10 DEF IInv, MetadataLoaded, Fields
  <1> QED BY <1>9, <1>11, <1>12, <1>13, DiskUnchanged DEF StartIndexer, IInv

LEMMA StartServerKeeps ==
  ASSUME IInv, StartServer  PROVE IInv'
  <1>1. /\ held' = [p \in Procs |-> [x \in Files |-> held'[p][x]]]
        /\ \A x \in Files : held'["server"][x] = Empty
        /\ \A x \in Files : held'["indexer"][x] = held["indexer"][x]
    BY DEF StartServer, IInv, TypeOK, HeldType, Procs
  <1>2. HeldType'
    <2>1. \A p \in Procs, x \in Files : Fits(x, held'[p][x])
      BY <1>1 DEF IInv, TypeOK, HeldType, Fits, Procs
    <2> QED BY <1>1, <2>1 DEF HeldType
  <1>3. /\ pc' \in [Procs -> Nat] /\ pc'["server"] = 1 /\ pc'["indexer"] = pc["indexer"]
    BY DEF StartServer, IInv, TypeOK, PcType, Procs
  <1>4. PcType'
    <2>1. pc'["server"] <= Len(Program("server"))
      <3>1. Len(Program("server")) = 17
        BY ServerProgram DEF Program
      <3>2. 1 <= 17
        OBVIOUS
      <3>3. pc'["server"] = 1
        BY <1>3
      <3> QED BY ONLY <3>1, <3>2, <3>3
    <2>2. pc'["indexer"] <= Len(Program("indexer"))
      BY <1>3 DEF IInv, TypeOK, PcType, Procs
    <2> QED BY <1>3, <2>1, <2>2 DEF PcType, Procs
  <1>5. TypeOK'
    BY <1>2, <1>4, DiskUnchanged DEF StartServer, IInv, TypeOK
  <1>6. \A f \in Fields : /\ HeldMetadata("server", f)' = Empty
                          /\ HeldMetadata("indexer", f)' = HeldMetadata("indexer", f)
    BY <1>1, FilesOf DEF HeldMetadata
  <1>7. OfThisRun'
    BY <1>3, <1>6 DEF StartServer, OfThisRun, Procs
  <1>8. HeldInPlace'
    BY <1>6 DEF HeldInPlace
  <1>9. MetadataLoaded'
    BY <1>3 DEF MetadataLoaded
  <1> QED BY <1>5, <1>7, <1>8, <1>9, DiskUnchanged DEF StartServer, IInv

-----------------------------------------------------------------------------
(* The theorems                                                            *)

LEMMA InitInv == Init => IInv
  <1> SUFFICES ASSUME Init  PROVE IInv
    OBVIOUS
  <1>1. DiskType
    BY DEF Init, DiskType, Fits
  <1>2. HeldType
    BY DEF Init, HeldType, Fits
  <1>3. PcType
    <2>1. \A p \in Procs : Len(Program(p)) \in Nat
      BY IndexerProgram, ServerProgram DEF Program
    <2>2. pc \in [Procs -> Nat] /\ \A p \in Procs : pc[p] = 0
      BY DEF Init
    <2> QED BY <2>1, <2>2 DEF PcType
  <1>4. TypeOK
    <2>1. index \in [Fields -> Seq([run: Runs, term: Terms])]
      BY DEF Init
    <2>2. run \in 0..MaxRuns /\ appended \in Nat
      BY IndexFilesAssumption DEF Init
    <2>3. /\ outcome \in {"none", "up", "refused", "panicked"}
          /\ complete \in BOOLEAN /\ cut \in BOOLEAN
      BY DEF Init
    <2> QED BY <1>1, <1>2, <1>3, <2>1, <2>2, <2>3 DEF TypeOK
  <1>5. PostingsInPlace
    BY FilesOf DEF Init, PostingsInPlace
  <1>6. HeldInPlace
    BY FilesOf DEF Init, HeldInPlace, HeldMetadata, Procs
  <1>7. OfThisRun /\ MetadataLoaded
    BY DEF Init, OfThisRun, MetadataLoaded, Procs
  <1> QED BY <1>4, <1>5, <1>6, <1>7 DEF IInv

LEMMA StepInv == IInv /\ [Next]_vars => IInv'
  <1> SUFFICES ASSUME IInv, [Next]_vars  PROVE IInv'
    OBVIOUS
  <1>1. ASSUME NEW p \in Procs, Truncate(p)  PROVE IInv'
    BY <1>1, TruncateKeeps
  <1>2. ASSUME NEW p \in Procs, Write(p)  PROVE IInv'
    BY <1>2, WriteKeeps
  <1>3. ASSUME NEW p \in Procs, Kill(p)  PROVE IInv'
    BY <1>3, KillKeeps
  <1>4. ASSUME NEW f \in Fields, AppendPostingList(f)  PROVE IInv'
    BY <1>4, AppendPostingListKeeps
  <1>5. CASE EndMerge
    BY <1>5, EndMergeKeeps
  <1>6. CASE Refuse
    BY <1>6, ServerStops DEF Refuse, At
  <1>7. CASE DeserializePanics
    BY <1>7, ServerStops DEF DeserializePanics, At
  <1>8. CASE Load
    BY <1>8, LoadKeeps
  <1>9. CASE Shutdown
    BY <1>9, ShutdownKeeps
  <1>10. CASE StartIndexer
    BY <1>10, StartIndexerKeeps
  <1>11. CASE StartServer
    BY <1>11, StartServerKeeps
  <1>12. CASE UNCHANGED vars
    <2>1. UNCHANGED <<disk, index, run, pc, held, appended, outcome, complete, cut>>
      BY <1>12 DEF vars
    <2>2. HeldType' /\ PcType'
      BY <2>1 DEF IInv, TypeOK, HeldType, PcType
    <2>3. TypeOK'
      BY <2>1, <2>2, DiskUnchanged DEF IInv, TypeOK
    <2>4. HeldInPlace' /\ OfThisRun' /\ MetadataLoaded'
      BY <2>1 DEF IInv, HeldInPlace, OfThisRun, MetadataLoaded, HeldMetadata, InPlace
    <2> QED BY <2>1, <2>3, <2>4, DiskUnchanged DEF IInv
  <1> QED BY <1>1, <1>2, <1>3, <1>4, <1>5, <1>6, <1>7, <1>8, <1>9, <1>10, <1>11, <1>12
          DEF Next

\* The state of IndexFiles stays within its types: what Close writes and what
\* OpenReader reads are contents of the right kind.
THEOREM TypeCorrect == Spec => []TypeOK
  <1>1. Init => IInv
    BY InitInv
  <1>2. IInv /\ [Next]_vars => IInv'
    BY StepInv
  <1>3. IInv => TypeOK
    BY DEF IInv
  <1> QED BY <1>1, <1>2, <1>3, PTL DEF Spec

\* Metadata on disk always leads to the posting lists of the run that wrote it:
\* through kills between any two writes of the indexer or of Close, and while a
\* later run appends to the same index file.
THEOREM MetadataLeadsHome == Spec => []PostingsInPlace
  <1>1. Init => IInv
    BY InitInv
  <1>2. IInv /\ [Next]_vars => IInv'
    BY StepInv
  <1>3. IInv => PostingsInPlace
    BY DEF IInv
  <1> QED BY <1>1, <1>2, <1>3, PTL DEF Spec

-----------------------------------------------------------------------------
(* What a start of the server finds                                        *)

Meta == <<"meta", "all">>
Docs == <<"docs_store", "all">>

OnDisk(f)     == disk[<<"metadata", f>>]
SizeOnDisk(f) == disk[<<"size", f>>]

\* The content c of file x is of the last run.
OfRun(x, c) == c # Empty /\ (x[1] = "size" \/ RunOf(x, c) = run)

\* The programs do not run together, and the outcome is that of a start of the
\* server after which nothing else began.
Alone ==
  /\ pc["indexer"] = 0 \/ pc["server"] = 0
  /\ pc["indexer"] # 0 => outcome = "none" /\ ~complete /\ run > 0
  /\ outcome = "up" => pc["server"] = 9
  /\ outcome \in {"refused", "panicked"} => pc["indexer"] = 0 /\ pc["server"] = 0

IndexerHolds == pc["indexer"] # 0 => \A k \in Shared : held["indexer"][<<k, "all">>] = run

\* What the indexer has written is still there.
Written ==
  \A i \in 1..18 :
    i < pc["indexer"] /\ IndexerSteps[i].do = "write" =>
      disk[IndexerSteps[i].file] = Output("indexer", IndexerSteps[i].file)

\* Until the first run is complete the file that a server reads first is empty.
NotYet == run <= 1 /\ ~complete => disk[Meta] = Empty /\ pc["server"] <= 1

OfLastRun ==
  complete =>
    /\ pc["indexer"] = 0 /\ run > 0
    /\ \A k \in Shared : disk[<<k, "all">>] = run
    /\ \A f \in Fields : OnDisk(f) # Empty => OnDisk(f).run = run

SizesMatch ==
  complete =>
    \A f \in Fields :
      SizeOnDisk(f) # Empty /\ OnDisk(f) # Empty => SizeOnDisk(f) = MetadataSize(OnDisk(f))

Loaded ==
  complete /\ pc["server"] # 0 =>
    \A i \in 1..8 :
      i < pc["server"] => OfRun(ServerSteps[i].file, held["server"][ServerSteps[i].file])

SizeLoaded ==
  /\ pc["server"] > 3 => held["server"][<<"size", "name">>] # Empty
  /\ pc["server"] > 5 => held["server"][<<"size", "address">>] # Empty

\* The server's memory agrees with the disk as far as both have a content: it
\* writes back the metadata it has read.
Matches(f, md, size) ==
  /\ md # Empty /\ OnDisk(f) # Empty => OnDisk(f) = md
  /\ size # Empty /\ OnDisk(f) # Empty /\ pc["server"] <= 8 => size = MetadataSize(OnDisk(f))
  /\ md # Empty /\ SizeOnDisk(f) # Empty => SizeOnDisk(f) = MetadataSize(md)

LoadedMatches ==
  complete /\ pc["server"] # 0 =>
    \A f \in Fields : Matches(f, held["server"][<<"metadata", f>>], held["server"][<<"size", f>>])

\* Only between the truncation and the write of Close is a file empty.
Rewriting ==
  complete /\ ~cut =>
    \A x \in Files : disk[x] = Empty => At("server", "write") /\ File("server") = x

RunInv ==
  /\ Alone /\ IndexerHolds /\ Written /\ NotYet
  /\ OfLastRun /\ SizesMatch /\ Loaded /\ SizeLoaded /\ LoadedMatches /\ Rewriting
  /\ RefusesWithReason /\ OpensInBuffer

-----------------------------------------------------------------------------
(* The order of the steps                                                  *)

LEMMA ServerList ==
  /\ ServerSteps[1] = Do("read", "meta", "all")
  /\ ServerSteps[2] = Do("read", "ngram", "all")
  /\ ServerSteps[3] = Do("read", "size", "name")
  /\ ServerSteps[4] = Do("read", "metadata", "name")
  /\ ServerSteps[5] = Do("read", "size", "address")
  /\ ServerSteps[6] = Do("read", "metadata", "address")
  /\ ServerSteps[7] = Do("read", "rtree", "all")
  /\ ServerSteps[8] = Do("read", "noisy_model", "all")
  /\ ServerSteps[9] = Do("serve", "docs_store", "all")
  /\ ServerSteps[10] = Do("truncate", "metadata", "name")
  /\ ServerSteps[11] = Do("write", "metadata", "name")
  /\ ServerSteps[12] = Do("truncate", "size", "name")
  /\ ServerSteps[13] = Do("write", "size", "name")
  /\ ServerSteps[14] = Do("truncate", "metadata", "address")
  /\ ServerSteps[15] = Do("write", "metadata", "address")
  /\ ServerSteps[16] = Do("truncate", "size", "address")
  /\ ServerSteps[17] = Do("write", "size", "address")
  BY SMTT(60) DEF ServerSteps, CloseSteps, OpenSteps, Replace

LEMMA IndexerList ==
  /\ Len(IndexerSteps) = 18
  /\ IndexerSteps[1] = Do("truncate", "noisy_model", "all")
  /\ IndexerSteps[2] = Do("write", "noisy_model", "all")
  /\ IndexerSteps[3] = Do("write", "docs_store", "all")
  /\ IndexerSteps[4] = Do("write", "rtree", "all")
  /\ IndexerSteps[5] = Do("append", "metadata", "name")
  /\ IndexerSteps[6] = Do("truncate", "metadata", "name")
  /\ IndexerSteps[7] = Do("write", "metadata", "name")
  /\ IndexerSteps[8] = Do("truncate", "size", "name")
  /\ IndexerSteps[9] = Do("write", "size", "name")
  /\ IndexerSteps[10] = Do("append", "metadata", "address")
  /\ IndexerSteps[11] = Do("truncate", "metadata", "address")
  /\ IndexerSteps[12] = Do("write", "metadata", "address")
  /\ IndexerSteps[13] = Do("truncate", "size", "address")
  /\ IndexerSteps[14] = Do("write", "size", "address")
  /\ IndexerSteps[15] = Do("truncate", "ngram", "all")
  /\ IndexerSteps[16] = Do("write", "ngram", "all")
  /\ IndexerSteps[17] = Do("truncate", "meta", "all")
  /\ IndexerSteps[18] = Do("write", "meta", "all")
  BY SMTT(60) DEF IndexerSteps, CloseSteps, Replace

LEMMA UpTo18 == \A i \in 1..18 :
  \/ i = 1 \/ i = 2 \/ i = 3 \/ i = 4 \/ i = 5 \/ i = 6 \/ i = 7 \/ i = 8 \/ i = 9
  \/ i = 10 \/ i = 11 \/ i = 12 \/ i = 13 \/ i = 14 \/ i = 15 \/ i = 16 \/ i = 17 \/ i = 18
  OBVIOUS

LEMMA StepFiles ==
  /\ \A i \in 1..18 : IndexerSteps[i].file \in Files
  /\ \A i \in 1..17 : ServerSteps[i].file \in Files
  <1>1. \A i \in 1..18 : IndexerSteps[i] \in Step
    BY IndexerProgram, IndexerList, ElementOfSeq
  <1>2. \A i \in 1..17 : ServerSteps[i] \in Step
    BY ServerProgram, ElementOfSeq
  <1> QED BY <1>1, <1>2 DEF Step

\* The server reads, serves, and then writes each file of the metadata right
\* after it has truncated it.
LEMMA ServerOrder ==
  ASSUME NEW i \in 1..17
  PROVE  /\ ServerSteps[i].do = "read" <=> i \in 1..8
         /\ ServerSteps[i].do = "serve" <=> i = 9
         /\ i > 9 => /\ ServerSteps[i].do \in {"truncate", "write"}
                     /\ ServerSteps[i].file \in {"metadata", "size"} \X Fields
         /\ ServerSteps[i].do = "truncate" => /\ i + 1 \in 10..17
                                              /\ ServerSteps[i + 1].do = "write"
                                              /\ ServerSteps[i + 1].file = ServerSteps[i].file
         /\ ServerSteps[i].file[1] = "metadata" /\ i \in 1..8 => i = 4 \/ i = 6
  <1>1. \/ i = 1 \/ i = 2 \/ i = 3 \/ i = 4 \/ i = 5 \/ i = 6 \/ i = 7 \/ i = 8 \/ i = 9
        \/ i = 10 \/ i = 11 \/ i = 12 \/ i = 13 \/ i = 14 \/ i = 15 \/ i = 16 \/ i = 17
    OBVIOUS
  <1>2. ServerSteps[i].do = "read" <=> i \in 1..8
    BY <1>1, ServerList DEF Do
  <1>3. ServerSteps[i].do = "serve" <=> i = 9
    BY <1>1, ServerList DEF Do
  <1>4. i > 9 => /\ ServerSteps[i].do \in {"truncate", "write"}
                 /\ ServerSteps[i].file \in {"metadata", "size"} \X Fields
    BY <1>1, ServerList DEF Do, Fields
  <1>5. ServerSteps[i].do = "truncate" => /\ i + 1 \in 10..17
                                          /\ ServerSteps[i + 1].do = "write"
                                          /\ ServerSteps[i + 1].file = ServerSteps[i].file
    BY <1>1, ServerList DEF Do
  <1>6. ServerSteps[i].file[1] = "metadata" /\ i \in 1..8 => i = 4 \/ i = 6
    BY <1>1, ServerList DEF Do
  <1> QED BY <1>2, <1>3, <1>4, <1>5, <1>6

\* It reads every file but the documents.
LEMMA ServerReadsAll ==
  ASSUME NEW x \in Files, x # Docs
  PROVE  \E i \in 1..8 : ServerSteps[i].file = x
  <1>1. \/ x = <<"meta", "all">> \/ x = <<"ngram", "all">> \/ x = <<"rtree", "all">>
        \/ x = <<"noisy_model", "all">>
        \/ x = <<"size", "name">> \/ x = <<"metadata", "name">>
        \/ x = <<"size", "address">> \/ x = <<"metadata", "address">>
    BY DEF Files, Shared, Fields, Docs
  <1>2. 1 \in 1..8 /\ 2 \in 1..8 /\ 3 \in 1..8 /\ 4 \in 1..8 /\ 5 \in 1..8
        /\ 6 \in 1..8 /\ 7 \in 1..8 /\ 8 \in 1..8
    OBVIOUS
  <1> QED BY <1>1, <1>2, ServerList DEF Do

\* The indexer neither truncates what it has written nor appends posting lists to
\* a field whose metadata or size it has written; SaveMeta is last.
LEMMA IndexerOrder ==
  ASSUME NEW i \in 1..18
  PROVE  /\ IndexerSteps[i].do \in {"truncate", "write", "append"}
         /\ IndexerSteps[i].do # "write" => i < 18
         /\ IndexerSteps[i].do = "write" /\ IndexerSteps[i].file = Meta => i = 18
         /\ \A j \in 1..18 : j < i /\ IndexerSteps[j].do = "write" =>
              /\ IndexerSteps[i].do = "truncate" =>
                   IndexerSteps[j].file # IndexerSteps[i].file
              /\ IndexerSteps[i].do = "append" =>
                   IndexerSteps[j].file[2] # IndexerSteps[i].file[2]
  <1>1. /\ IndexerSteps[i].do \in {"truncate", "write", "append"}
        /\ IndexerSteps[i].do # "write" => i < 18
        /\ IndexerSteps[i].do = "write" /\ IndexerSteps[i].file = Meta => i = 18
    BY UpTo18, IndexerList DEF Do, Meta
  <1>2. ASSUME NEW j \in 1..18, j < i, IndexerSteps[j].do = "write",
               IndexerSteps[i].do = "truncate"
        PROVE  IndexerSteps[j].file # IndexerSteps[i].file
    <2>1. i \in {1, 6, 8, 11, 13, 15, 17} /\ j \in {2, 3, 4, 7, 9, 12, 14, 16, 18}
      BY <1>2, UpTo18, IndexerList DEF Do
    <2> QED BY <1>2, <2>1, IndexerList DEF Do
  <1>3. ASSUME NEW j \in 1..18, j < i, IndexerSteps[j].do = "write",
               IndexerSteps[i].do = "append"
        PROVE  IndexerSteps[j].file[2] # IndexerSteps[i].file[2]
    <2>1. i \in {5, 10} /\ j \in {2, 3, 4, 7, 9, 12, 14, 16, 18}
      BY <1>3, UpTo18, IndexerList DEF Do
    <2> QED BY <1>3, <2>1, IndexerList DEF Do
  <1> QED BY <1>1, <1>2, <1>3

LEMMA IndexerWritesAll ==
  ASSUME NEW x \in Files
  PROVE  \E i \in 1..18 : IndexerSteps[i].do = "write" /\ IndexerSteps[i].file = x
  <1>1. \/ x = <<"noisy_model", "all">> \/ x = <<"docs_store", "all">> \/ x = <<"rtree", "all">>
        \/ x = <<"metadata", "name">> \/ x = <<"size", "name">>
        \/ x = <<"metadata", "address">> \/ x = <<"size", "address">>
        \/ x = <<"ngram", "all">> \/ x = <<"meta", "all">>
    BY DEF Files, Shared, Fields
  <1>2. 2 \in 1..18 /\ 3 \in 1..18 /\ 4 \in 1..18 /\ 7 \in 1..18 /\ 9 \in 1..18
        /\ 12 \in 1..18 /\ 14 \in 1..18 /\ 16 \in 1..18 /\ 18 \in 1..18
    OBVIOUS
  <1>3. \A i \in {2, 3, 4, 7, 9, 12, 14, 16, 18} : IndexerSteps[i].do = "write"
    BY IndexerList DEF Do
  <1>4. /\ IndexerSteps[2].file = <<"noisy_model", "all">>
        /\ IndexerSteps[3].file = <<"docs_store", "all">>
        /\ IndexerSteps[4].file = <<"rtree", "all">>
        /\ IndexerSteps[7].file = <<"metadata", "name">>
        /\ IndexerSteps[9].file = <<"size", "name">>
        /\ IndexerSteps[12].file = <<"metadata", "address">>
        /\ IndexerSteps[14].file = <<"size", "address">>
        /\ IndexerSteps[16].file = <<"ngram", "all">>
        /\ IndexerSteps[18].file = <<"meta", "all">>
    BY IndexerList DEF Do
  <1> QED BY <1>1, <1>2, <1>3, <1>4

-----------------------------------------------------------------------------
(* What the steps have in common                                           *)

\* A content is not that of an empty file.
LEMMA NotEmpty ==
  /\ \A n \in Nat : n # Empty
  /\ \A c : IsMetadata(c) => c # Empty /\ MetadataSize(c) \in Nat \ {0}
  <1>1. \A n \in Nat : n # Empty
    BY EmptyAssumption
  <1>2. ASSUME NEW c, IsMetadata(c)
        PROVE  c # Empty /\ MetadataSize(c) \in Nat \ {0}
    <2>1. /\ c = [run |-> c.run, pos |-> c.pos] /\ c.run \in 1..MaxRuns
          /\ DOMAIN c.pos \in SUBSET Terms /\ c.pos \in [DOMAIN c.pos -> Nat]
      BY <1>2 DEF IsMetadata, Runs
    <2>2. c \in [run: 1..MaxRuns, pos: UNION {[T -> Nat] : T \in SUBSET Terms}]
      BY <2>1
    <2>3. Cardinality(DOMAIN c.pos) \in Nat
      BY <1>2, FS_CardinalityType DEF IsMetadata
    <2>4. MetadataSize(c) \in Nat \ {0}
      BY <2>3 DEF MetadataSize
    <2> QED BY <2>2, <2>4, EmptyAssumption
  <1> QED BY <1>1, <1>2

LEMMA ServerIs ==
  ASSUME TypeOK, pc["server"] # 0
  PROVE  /\ pc["server"] \in 1..17
         /\ \A what : At("server", what) <=> ServerSteps[pc["server"]].do = what
         /\ File("server") = ServerSteps[pc["server"]].file
         /\ File("server") \in Files
         /\ NextPc("server") = IF pc["server"] = 17 THEN 0 ELSE pc["server"] + 1
  BY ServerProgram, ProgramStep DEF Program, Procs, At, File, NextPc

LEMMA IndexerIs ==
  ASSUME TypeOK, pc["indexer"] # 0
  PROVE  /\ pc["indexer"] \in 1..18
         /\ \A what : At("indexer", what) <=> IndexerSteps[pc["indexer"]].do = what
         /\ File("indexer") = IndexerSteps[pc["indexer"]].file
         /\ File("indexer") \in Files
         /\ NextPc("indexer") = IF pc["indexer"] = 18 THEN 0 ELSE pc["indexer"] + 1
  BY IndexerList, ProgramStep DEF Program, Procs, At, File, NextPc

LEMMA PcOf ==
  ASSUME TypeOK, NEW p \in Procs, NEW k, pc' = [pc EXCEPT ![p] = k]
  PROVE  \A q \in Procs : pc'[q] = IF q = p THEN k ELSE pc[q]
  BY DEF TypeOK, PcType

LEMMA DiskOf ==
  ASSUME TypeOK, NEW x \in Files, NEW c, disk' = [disk EXCEPT ![x] = c]
  PROVE  \A y \in Files : disk'[y] = IF y = x THEN c ELSE disk[y]
  BY DEF TypeOK, DiskType

\* While the indexer runs nothing is said of complete runs or of servers.
LEMMA IndexerRuns ==
  ASSUME RunInv, pc["indexer"] # 0
  PROVE  pc["server"] = 0 /\ ~complete /\ outcome = "none" /\ run > 0
  BY DEF RunInv, Alone

LEMMA StillIndexing ==
  ASSUME pc'["indexer"] # 0, pc'["server"] = 0, ~complete', outcome' = "none", run' > 0,
         IndexerHolds', Written', run' <= 1 => disk'[Meta] = Empty
  PROVE  RunInv'
  <1>1. Alone' /\ OfLastRun' /\ SizesMatch' /\ Loaded' /\ SizeLoaded' /\ LoadedMatches'
        /\ Rewriting' /\ RefusesWithReason' /\ OpensInBuffer'
    BY DEF Alone, OfLastRun, SizesMatch, Loaded, SizeLoaded, LoadedMatches, Rewriting,
           RefusesWithReason, OpensInBuffer
  <1>2. NotYet'
    BY DEF NotYet
  <1> QED BY <1>1, <1>2 DEF RunInv

\* What the indexer has to write of a file depends on its memory only.
LEMMA OutputSame ==
  ASSUME UNCHANGED held, NEW p, NEW x
  PROVE  Output(p, x)' = Output(p, x)
  BY DEF Output, MetadataSize

-----------------------------------------------------------------------------
(* The indexer's steps                                                     *)

LEMMA IndexerTruncateKeeps ==
  ASSUME IInv, RunInv, Truncate("indexer")  PROVE RunInv'
  <1>1. PICK i : i = pc["indexer"]
    OBVIOUS
  <1>2. PICK x : x = File("indexer")
    OBVIOUS
  <1>3. TypeOK /\ pc["indexer"] # 0
    BY DEF IInv, Truncate, At
  <1>4. /\ i \in 1..18 /\ IndexerSteps[i].do = "truncate" /\ x = IndexerSteps[i].file
        /\ x \in Files /\ i < 18 /\ NextPc("indexer") = i + 1
    <2>1. /\ i \in 1..18 /\ IndexerSteps[i].do = "truncate" /\ x = IndexerSteps[i].file
          /\ x \in Files /\ NextPc("indexer") = IF i = 18 THEN 0 ELSE i + 1
      BY <1>1, <1>2, <1>3, IndexerIs DEF Truncate
    <2>2. i < 18
      BY <2>1, IndexerOrder
    <2> QED BY <2>1, <2>2
  <1>5. pc'["indexer"] = i + 1 /\ pc'["server"] = pc["server"]
    BY <1>3, <1>4, PcOf DEF Truncate, Procs
  <1>6. \A y \in Files : disk'[y] = IF y = x THEN Empty ELSE disk[y]
    BY <1>2, <1>3, <1>4, DiskOf DEF Truncate
  <1>7. UNCHANGED <<held, run, complete>> /\ outcome' = outcome
    BY DEF Truncate
  <1>8. Written'
    <2> SUFFICES ASSUME NEW j \in 1..18, j < i + 1, IndexerSteps[j].do = "write"
                 PROVE  disk'[IndexerSteps[j].file] = Output("indexer", IndexerSteps[j].file)'
      BY <1>5 DEF Written
    <2>1. j < i
      BY <1>4
    <2>2. IndexerSteps[j].file # x
      BY <1>4, <2>1, IndexerOrder
    <2>3. IndexerSteps[j].file \in Files
      BY StepFiles
    <2>4. disk[IndexerSteps[j].file] = Output("indexer", IndexerSteps[j].file)
      BY <1>1, <2>1 DEF RunInv, Written
    <2> QED BY <1>6, <1>7, <2>2, <2>3, <2>4, OutputSame
  <1>9. IndexerHolds'
    BY <1>3, <1>7 DEF RunInv, IndexerHolds
  <1>10. run' <= 1 => disk'[Meta] = Empty
    <2>1. Meta \in Files
      BY DEF Meta, Files, Shared
    <2> QED BY <1>3, <1>6, <1>7, <2>1, IndexerRuns DEF RunInv, NotYet
  <1> QED BY <1>3, <1>4, <1>5, <1>7, <1>8, <1>9, <1>10, IndexerRuns, StillIndexing

\* The content that the indexer writes is of this run.
LEMMA IndexerOutput ==
  ASSUME IInv, RunInv, pc["indexer"] # 0
  PROVE  /\ \A x \in Files : Output("indexer", x) # Empty
         /\ \A k \in Shared : Output("indexer", <<k, "all">>) = run
         /\ \A f \in Fields :
              /\ Output("indexer", <<"metadata", f>>) = HeldMetadata("indexer", f)
              /\ HeldMetadata("indexer", f).run = run
              /\ Output("indexer", <<"size", f>>) = MetadataSize(HeldMetadata("indexer", f))
  <1>1. run \in Runs /\ \A f \in Fields : /\ IsMetadata(HeldMetadata("indexer", f))
                                         /\ HeldMetadata("indexer", f).run = run
    BY DEF IInv, OfThisRun
  <1>2. \A k \in Shared : Output("indexer", <<k, "all">>) = run
    <2> SUFFICES ASSUME NEW k \in Shared  PROVE Output("indexer", <<k, "all">>) = run
      OBVIOUS
    <2>1. <<k, "all">>[1] # "size"
      BY DEF Shared
    <2> QED BY <2>1 DEF RunInv, IndexerHolds, Output
  <1>3. \A f \in Fields :
          /\ Output("indexer", <<"metadata", f>>) = HeldMetadata("indexer", f)
          /\ Output("indexer", <<"size", f>>) = MetadataSize(HeldMetadata("indexer", f))
    <2> SUFFICES ASSUME NEW f \in Fields
                 PROVE  /\ Output("indexer", <<"metadata", f>>) = HeldMetadata("indexer", f)
                        /\ Output("indexer", <<"size", f>>) =
                             MetadataSize(HeldMetadata("indexer", f))
      OBVIOUS
    <2>1. <<"metadata", f>>[1] # "size" /\ <<"size", f>>[1] = "size" /\ <<"size", f>>[2] = f
      OBVIOUS
    <2> QED BY <2>1 DEF Output, HeldMetadata
  <1>4. run # Empty
    BY <1>1, NotEmpty, IndexFilesAssumption DEF Runs
  <1>5. \A x \in Files : Output("indexer", x) # Empty
    <2> SUFFICES ASSUME NEW x \in Files  PROVE Output("indexer", x) # Empty
      OBVIOUS
    <2>1. CASE \E k \in Shared : x = <<k, "all">>
      BY <1>2, <1>4, <2>1
    <2>2. CASE \E f \in Fields : x = <<"metadata", f>>
      BY <1>1, <1>3, <2>2, NotEmpty
    <2>3. CASE \E f \in Fields : x = <<"size", f>>
      BY <1>1, <1>3, <2>3, NotEmpty
    <2> QED BY <2>1, <2>2, <2>3 DEF Files
  <1> QED BY <1>1, <1>2, <1>3, <1>5

LEMMA IndexerWriteKeeps ==
  ASSUME IInv, RunInv, Write("indexer")  PROVE RunInv'
  <1>1. PICK i : i = pc["indexer"]
    OBVIOUS
  <1>2. PICK x : x = File("indexer")
    OBVIOUS
  <1>3. TypeOK /\ pc["indexer"] # 0
    BY DEF IInv, Write, At
  <1>4. /\ i \in 1..18 /\ IndexerSteps[i].do = "write" /\ x = IndexerSteps[i].file
        /\ x \in Files /\ NextPc("indexer") = IF i = 18 THEN 0 ELSE i + 1
    BY <1>1, <1>2, <1>3, IndexerIs DEF Write
  <1>5. pc'["indexer"] = NextPc("indexer") /\ pc'["server"] = pc["server"]
    BY <1>3, PcOf DEF Write, Procs
  <1>6. \A y \in Files : disk'[y] = IF y = x THEN Output("indexer", x) ELSE disk[y]
    <2>1. PICK c : c = Output("indexer", x)
      OBVIOUS
    <2>2. disk' = [disk EXCEPT ![x] = c]
      BY <1>2, <2>1 DEF Write
    <2> QED BY <1>3, <1>4, <2>1, <2>2, DiskOf
  <1>7. UNCHANGED <<held, run>> /\ outcome' = outcome
    BY DEF Write
  <1>8. ASSUME NEW j \in 1..18, j <= i, IndexerSteps[j].do = "write"
        PROVE  disk'[IndexerSteps[j].file] = Output("indexer", IndexerSteps[j].file)
    <2>1. j = i \/ j < i
      BY <1>4, <1>8
    <2>2. j < i => disk[IndexerSteps[j].file] = Output("indexer", IndexerSteps[j].file)
      BY <1>1, <1>8 DEF RunInv, Written
    <2> QED BY <1>4, <1>6, <2>1, <2>2, StepFiles
  <1>9. /\ pc["server"] = 0 /\ ~complete /\ outcome = "none" /\ run > 0
    BY <1>3, IndexerRuns
  <1>10. CASE i < 18
    <2>1. pc'["indexer"] = i + 1 /\ i + 1 # 0
      BY <1>4, <1>5, <1>10
    <2>2. ~complete'
      BY <1>4, <1>5, <1>9, <1>10, <2>1 DEF Write
    <2>3. Written'
      <3> SUFFICES ASSUME NEW j \in 1..18, j < i + 1, IndexerSteps[j].do = "write"
                   PROVE  disk'[IndexerSteps[j].file] = Output("indexer", IndexerSteps[j].file)'
        BY <2>1 DEF Written
      <3>1. j <= i
        BY <1>4
      <3> QED BY <1>7, <1>8, <3>1, OutputSame
    <2>4. IndexerHolds'
      BY <1>3, <1>7 DEF RunInv, IndexerHolds
    <2>5. run' <= 1 => disk'[Meta] = Empty
      <3>1. Meta \in Files
        BY DEF Meta, Files, Shared
      <3>2. x # Meta
        BY <1>4, <1>10, IndexerOrder
      <3> QED BY <1>6, <1>7, <1>9, <3>1, <3>2 DEF RunInv, NotYet
    <2> QED BY <1>5, <1>7, <1>9, <2>1, <2>2, <2>3, <2>4, <2>5, StillIndexing
  <1>11. CASE i = 18
    <2>1. pc'["indexer"] = 0 /\ pc'["server"] = 0 /\ complete'
      BY <1>4, <1>5, <1>9, <1>11 DEF Write
    <2>2. \A y \in Files : disk'[y] = Output("indexer", y)
      <3> SUFFICES ASSUME NEW y \in Files  PROVE disk'[y] = Output("indexer", y)
        OBVIOUS
      <3>1. PICK j \in 1..18 : IndexerSteps[j].do = "write" /\ IndexerSteps[j].file = y
        BY IndexerWritesAll
      <3>2. j <= i
        BY <1>11
      <3> QED BY <1>8, <3>1, <3>2
    <2>3. \A f \in Fields : <<"metadata", f>> \in Files /\ <<"size", f>> \in Files
      BY FileNames
    <2>4. /\ \A y \in Files : disk'[y] # Empty
          /\ \A k \in Shared : disk'[<<k, "all">>] = run'
          /\ \A f \in Fields : /\ disk'[<<"metadata", f>>].run = run'
                               /\ disk'[<<"size", f>>] = MetadataSize(disk'[<<"metadata", f>>])
      BY <1>3, <1>7, <2>2, <2>3, IndexerOutput, FileNames
    <2>5. OfLastRun'
      BY <1>7, <1>9, <2>1, <2>4 DEF OfLastRun, OnDisk
    <2>6. SizesMatch'
      BY <2>4 DEF SizesMatch, OnDisk, SizeOnDisk, MetadataSize
    <2>7. Rewriting'
      BY <2>4 DEF Rewriting
    <2>8. Loaded' /\ SizeLoaded' /\ LoadedMatches'
      BY <2>1 DEF Loaded, SizeLoaded, LoadedMatches
    <2>9. Alone' /\ IndexerHolds' /\ Written' /\ NotYet'
      BY <1>7, <1>9, <2>1 DEF Alone, IndexerHolds, Written, NotYet
    <2>10. RefusesWithReason' /\ OpensInBuffer'
      BY <1>7, <1>9 DEF RefusesWithReason, OpensInBuffer
    <2> QED BY <2>5, <2>6, <2>7, <2>8, <2>9, <2>10 DEF RunInv
  <1> QED BY <1>4, <1>10, <1>11

LEMMA IndexerAppendKeeps ==
  ASSUME IInv, RunInv, NEW f \in Fields, AppendPostingList(f)  PROVE RunInv'
  <1>1. PICK i : i = pc["indexer"]
    OBVIOUS
  <1>2. TypeOK /\ pc["indexer"] # 0
    BY DEF IInv, AppendPostingList, At
  <1>3. /\ i \in 1..18 /\ IndexerSteps[i].do = "append" /\ IndexerSteps[i].file[2] = f
    BY <1>1, <1>2, IndexerIs DEF AppendPostingList
  <1>4. /\ UNCHANGED <<disk, run, pc, outcome, complete>>
        /\ \A y \in Files : y # <<"metadata", f>> => held'["indexer"][y] = held["indexer"][y]
    <2>1. PICK m : m = <<"metadata", f>>
      OBVIOUS
    <2>2. PICK c : held' = [held EXCEPT !["indexer"][m] = c]
      BY <2>1 DEF AppendPostingList
    <2>3. \A y \in Files : y # m => held'["indexer"][y] = held["indexer"][y]
      BY <1>2, <2>2 DEF TypeOK, HeldType, Procs
    <2> QED BY <2>1, <2>3 DEF AppendPostingList
  <1>5. Written'
    <2> SUFFICES ASSUME NEW j \in 1..18, j < i, IndexerSteps[j].do = "write"
                 PROVE  disk'[IndexerSteps[j].file] = Output("indexer", IndexerSteps[j].file)'
      BY <1>1, <1>4 DEF Written
    <2>1. PICK x : x = IndexerSteps[j].file
      OBVIOUS
    <2>2. x \in Files /\ x[2] # f
      BY <1>3, <2>1, IndexerOrder, StepFiles
    <2>3. disk[x] = Output("indexer", x)
      BY <1>1, <2>1 DEF RunInv, Written
    <2>4. held'["indexer"][x] = held["indexer"][x]
      BY <1>4, <2>2
    <2>5. x[1] = "size" => held'["indexer"][<<"metadata", x[2]>>]
                             = held["indexer"][<<"metadata", x[2]>>]
      <3>1. x[1] = "size" => <<"metadata", x[2]>> \in Files
        BY <2>2, FileNames
      <3>2. <<"metadata", x[2]>> # <<"metadata", f>>
        BY <2>2
      <3> QED BY <1>4, <3>1, <3>2
    <2>6. Output("indexer", x)' = Output("indexer", x)
      BY <2>4, <2>5 DEF Output, MetadataSize
    <2> QED BY <1>4, <2>1, <2>3, <2>6
  <1>6. IndexerHolds'
    <2>1. \A k \in Shared : <<k, "all">> \in Files /\ <<k, "all">> # <<"metadata", f>>
      BY FileNames DEF Shared
    <2> QED BY <1>2, <1>4, <2>1 DEF RunInv, IndexerHolds
  <1>7. run' <= 1 => disk'[Meta] = Empty
    BY <1>2, <1>4, IndexerRuns DEF RunInv, NotYet
  <1> QED BY <1>2, <1>4, <1>5, <1>6, <1>7, IndexerRuns, StillIndexing

LEMMA EndMergeKeepsRuns ==
  ASSUME IInv, RunInv, EndMerge  PROVE RunInv'
  <1>1. PICK i : i = pc["indexer"]
    OBVIOUS
  <1>2. TypeOK /\ pc["indexer"] # 0
    BY DEF IInv, EndMerge, At
  <1>3. /\ i \in 1..18 /\ IndexerSteps[i].do = "append" /\ i < 18
        /\ NextPc("indexer") = i + 1
    <2>1. /\ i \in 1..18 /\ IndexerSteps[i].do = "append"
          /\ NextPc("indexer") = IF i = 18 THEN 0 ELSE i + 1
      BY <1>1, <1>2, IndexerIs DEF EndMerge
    <2>2. i < 18
      BY <2>1, IndexerOrder
    <2> QED BY <2>1, <2>2
  <1>4. /\ pc'["indexer"] = i + 1 /\ pc'["server"] = pc["server"] /\ i + 1 # 0
        /\ UNCHANGED <<disk, run, held, outcome, complete>>
    <2>1. PICK k : k = NextPc("indexer")
      OBVIOUS
    <2>2. pc' = [pc EXCEPT !["indexer"] = k]
      BY <2>1 DEF EndMerge
    <2>3. pc'["indexer"] = k /\ pc'["server"] = pc["server"]
      BY <1>2, <2>2, PcOf DEF Procs
    <2> QED BY <1>3, <2>1, <2>3 DEF EndMerge
  <1>5. Written'
    <2> SUFFICES ASSUME NEW j \in 1..18, j < i + 1, IndexerSteps[j].do = "write"
                 PROVE  disk'[IndexerSteps[j].file] = Output("indexer", IndexerSteps[j].file)'
      BY <1>4 DEF Written
    <2>1. j < i
      BY <1>3
    <2> QED BY <1>1, <1>4, <2>1, OutputSame DEF RunInv, Written
  <1>6. IndexerHolds'
    BY <1>2, <1>4 DEF RunInv, IndexerHolds
  <1>7. run' <= 1 => disk'[Meta] = Empty
    BY <1>2, <1>4, IndexerRuns DEF RunInv, NotYet
  <1> QED BY <1>2, <1>4, <1>5, <1>6, <1>7, IndexerRuns, StillIndexing

LEMMA StartIndexerKeepsRuns ==
  ASSUME IInv, RunInv, StartIndexer  PROVE RunInv'
  <1>1. TypeOK /\ pc["indexer"] = 0 /\ pc["server"] = 0 /\ run \in Nat
    <2>1. pc["indexer"] = 0 /\ pc["server"] = 0
      BY DEF StartIndexer, Procs
    <2>2. TypeOK /\ run \in 0..MaxRuns
      BY DEF IInv, TypeOK
    <2> QED BY <2>1, <2>2, IndexFilesAssumption
  <1>2. pc'["indexer"] = 1 /\ pc'["server"] = 0
    BY <1>1 DEF StartIndexer, TypeOK, PcType, Procs
  <1>3. run' = run + 1 /\ ~complete' /\ outcome' = "none" /\ UNCHANGED disk
    BY DEF StartIndexer
  <1>4. Written'
    BY <1>2 DEF Written
  <1>5. IndexerHolds'
    <2> SUFFICES ASSUME NEW k \in Shared  PROVE held'["indexer"][<<k, "all">>] = run'
      BY DEF IndexerHolds
    <2>1. PICK x : x = <<k, "all">>
      OBVIOUS
    <2>2. x \in Files /\ x[1] \notin {"metadata", "size"}
      BY <2>1, FileNames DEF Shared
    <2>3. held'["indexer"][x] = run + 1
      BY <1>1, <2>2 DEF StartIndexer, TypeOK, HeldType, Procs
    <2> QED BY <1>3, <2>1, <2>3
  <1>6. run' <= 1 => disk'[Meta] = Empty
    <2>1. complete => run > 0
      BY DEF RunInv, OfLastRun
    <2> QED BY <1>1, <1>3, <2>1 DEF RunInv, NotYet
  <1> QED BY <1>1, <1>2, <1>3, <1>4, <1>5, <1>6, StillIndexing

-----------------------------------------------------------------------------
(* The server's steps                                                      *)

\* While a server works the indexer does not; before the first run is complete a
\* server is at its first step.
LEMMA ServerRuns ==
  ASSUME IInv, RunInv, pc["server"] # 0
  PROVE  /\ TypeOK /\ pc["indexer"] = 0 /\ pc["server"] \in 1..17
         /\ outcome = "none" \/ (outcome = "up" /\ pc["server"] = 9)
         /\ run <= 1 /\ ~complete => pc["server"] = 1
  <1>1. TypeOK /\ pc["server"] \in 1..17
    BY ServerIs DEF IInv
  <1>2. pc["indexer"] = 0 /\ (outcome = "none" \/ (outcome = "up" /\ pc["server"] = 9))
    <2>1. Alone /\ outcome \in {"none", "up", "refused", "panicked"}
      BY <1>1 DEF TypeOK, RunInv
    <2> QED BY <2>1 DEF Alone
  <1>3. run <= 1 /\ ~complete => pc["server"] = 1
    BY <1>1 DEF RunInv, NotYet
  <1> QED BY <1>1, <1>2, <1>3

\* What a server holds of a field while it closes it.
LEMMA Closing ==
  ASSUME IInv, RunInv, pc["server"] \in 10..17, NEW f \in Fields
  PROVE  /\ IsMetadata(HeldMetadata("server", f))
         /\ complete => HeldMetadata("server", f).run = run
  <1>1. pc["server"] > 4 /\ pc["server"] > 6 /\ pc["server"] # 0
    OBVIOUS
  <1>2. IsMetadata(HeldMetadata("server", f))
    BY <1>1 DEF IInv, MetadataLoaded, Fields
  <1>3. ASSUME complete  PROVE HeldMetadata("server", f).run = run
    <2>1. PICK x : x = <<"metadata", f>>
      OBVIOUS
    <2>2. x \in Files /\ x # Docs /\ x[1] = "metadata"
      BY <2>1, FileNames DEF Docs
    <2>3. PICK i \in 1..8 : ServerSteps[i].file = x
      BY <2>2, ServerReadsAll
    <2>4. OfRun(x, held["server"][x])
      <3>1. i < pc["server"]
        OBVIOUS
      <3> QED BY <1>1, <1>3, <2>3, <3>1 DEF RunInv, Loaded
    <2> QED BY <2>1, <2>2, <2>4 DEF OfRun, RunOf, HeldMetadata
  <1> QED BY <1>2, <1>3

LEMMA ServerTruncateKeeps ==
  ASSUME IInv, RunInv, Truncate("server")  PROVE RunInv'
  <1>1. PICK i : i = pc["server"]
    OBVIOUS
  <1>2. PICK x : x = File("server")
    OBVIOUS
  <1>3. TypeOK /\ pc["server"] # 0
    BY DEF IInv, Truncate, At
  <1>4. /\ i \in 1..17 /\ ServerSteps[i].do = "truncate" /\ x = ServerSteps[i].file
        /\ x \in Files /\ NextPc("server") = IF i = 17 THEN 0 ELSE i + 1
        /\ ~ At("server", "write")
    BY <1>1, <1>2, <1>3, ServerIs DEF Truncate
  <1>5. /\ i + 1 \in 10..17 /\ i \in 10..17
        /\ ServerSteps[i + 1].do = "write" /\ ServerSteps[i + 1].file = x
        /\ x \in {"metadata", "size"} \X Fields
    <2>1. i + 1 \in 10..17 /\ ~ (i \in 1..8) /\ i # 9
      BY <1>4, ServerOrder
    <2>2. i > 9
      BY <1>4, <2>1
    <2> QED BY <1>4, <2>1, <2>2, ServerOrder
  <1>6. pc'["server"] = i + 1 /\ pc'["indexer"] = pc["indexer"]
    <2>1. PICK k : k = NextPc("server")
      OBVIOUS
    <2>2. k = i + 1
      BY <1>4, <1>5, <2>1
    <2>3. pc' = [pc EXCEPT !["server"] = k]
      BY <2>1 DEF Truncate
    <2> QED BY <1>3, <2>2, <2>3, PcOf DEF Procs
  <1>7. \A y \in Files : disk'[y] = IF y = x THEN Empty ELSE disk[y]
    <2>1. disk' = [disk EXCEPT ![x] = Empty]
      BY <1>2 DEF Truncate
    <2> QED BY <2>1, <1>3, <1>4, DiskOf
  <1>8. UNCHANGED <<held, run, complete, cut, outcome>>
    BY DEF Truncate
  <1>9. /\ pc["indexer"] = 0 /\ outcome = "none" /\ (run <= 1 => complete)
    BY <1>1, <1>3, <1>5, ServerRuns
  <1>10. Alone' /\ IndexerHolds' /\ Written' /\ NotYet'
    BY <1>5, <1>6, <1>8, <1>9 DEF Alone, IndexerHolds, Written, NotYet
  <1>11. /\ \A k \in Shared : disk'[<<k, "all">>] = disk[<<k, "all">>]
         /\ \A f \in Fields : /\ OnDisk(f)' = Empty \/ OnDisk(f)' = OnDisk(f)
                              /\ SizeOnDisk(f)' = Empty \/ SizeOnDisk(f)' = SizeOnDisk(f)
    <2>1. \A k \in Shared : <<k, "all">> # x
      BY <1>5 DEF Fields
    <2> QED BY <1>7, <2>1, FileNames DEF OnDisk, SizeOnDisk
  <1>12. OfLastRun' /\ SizesMatch'
    BY <1>6, <1>8, <1>9, <1>11 DEF RunInv, OfLastRun, SizesMatch, MetadataSize
  <1>13. Loaded'
    <2>1. \A j \in 1..8 : j < pc["server"]
      BY <1>1, <1>5
    <2> QED BY <1>3, <1>8, <2>1 DEF RunInv, Loaded, OfRun, RunOf
  <1>14. SizeLoaded'
    <2>1. pc["server"] > 3 /\ pc["server"] > 5
      BY <1>1, <1>5
    <2> QED BY <1>8, <2>1 DEF RunInv, SizeLoaded
  <1>15. LoadedMatches'
    <2> SUFFICES ASSUME complete, NEW f \in Fields
                 PROVE  Matches(f, held["server"][<<"metadata", f>>],
                                held["server"][<<"size", f>>])'
      BY <1>8 DEF LoadedMatches
    <2>1. Matches(f, held["server"][<<"metadata", f>>], held["server"][<<"size", f>>])
      BY <1>3 DEF RunInv, LoadedMatches
    <2>2. ~ (pc'["server"] <= 8)
      BY <1>5, <1>6
    <2> QED BY <1>8, <1>11, <2>1, <2>2 DEF Matches, MetadataSize
  <1>16. Rewriting'
    <2> SUFFICES ASSUME complete, ~cut, NEW y \in Files, disk'[y] = Empty
                 PROVE  At("server", "write")' /\ File("server")' = y
      BY <1>8 DEF Rewriting
    <2>1. y = x
      BY <1>4, <1>7 DEF RunInv, Rewriting
    <2> QED BY <1>5, <1>6, <2>1 DEF At, File, Program
  <1>17. RefusesWithReason' /\ OpensInBuffer'
    BY <1>8, <1>9 DEF RefusesWithReason, OpensInBuffer
  <1> QED BY <1>10, <1>12, <1>13, <1>14, <1>15, <1>16, <1>17 DEF RunInv

LEMMA ServerWriteKeeps ==
  ASSUME IInv, RunInv, Write("server")  PROVE RunInv'
  <1>1. PICK i : i = pc["server"]
    OBVIOUS
  <1>2. PICK x : x = File("server")
    OBVIOUS
  <1>3. TypeOK /\ pc["server"] # 0
    BY DEF IInv, Write, At
  <1>4. /\ i \in 1..17 /\ ServerSteps[i].do = "write" /\ x = ServerSteps[i].file
        /\ x \in Files /\ NextPc("server") = IF i = 17 THEN 0 ELSE i + 1
    BY <1>1, <1>2, <1>3, ServerIs DEF Write
  <1>5. i \in 10..17 /\ x \in {"metadata", "size"} \X Fields
    <2>1. ~ (i \in 1..8) /\ i # 9
      BY <1>4, ServerOrder
    <2>2. i > 9 /\ i \in 10..17
      BY <1>4, <2>1
    <2> QED BY <1>4, <2>2, ServerOrder
  <1>6. /\ pc'["server"] = 0 \/ pc'["server"] \in 11..17
        /\ pc'["indexer"] = pc["indexer"]
    <2>1. PICK k : k = NextPc("server")
      OBVIOUS
    <2>2. k = 0 \/ k \in 11..17
      BY <1>5, <1>4, <2>1
    <2>3. pc' = [pc EXCEPT !["server"] = k]
      BY <2>1 DEF Write
    <2> QED BY <1>3, <2>2, <2>3, PcOf DEF Procs
  <1>7. PICK c : c = Output("server", x)
    OBVIOUS
  <1>8. \A y \in Files : disk'[y] = IF y = x THEN c ELSE disk[y]
    <2>1. disk' = [disk EXCEPT ![x] = c]
      BY <1>2, <1>7 DEF Write
    <2> QED BY <1>3, <1>4, <2>1, DiskOf
  <1>9. UNCHANGED <<held, run, cut, outcome>> /\ (complete' <=> complete)
    BY <1>3 DEF Write, TypeOK
  <1>10. /\ pc["indexer"] = 0 /\ outcome = "none" /\ (run <= 1 => complete)
    BY <1>1, <1>3, <1>5, ServerRuns
  <1>11. PICK f \in Fields : x = <<"metadata", f>> \/ x = <<"size", f>>
    BY <1>5
  <1>12. PICK md : md = held["server"][<<"metadata", f>>]
    OBVIOUS
  <1>13. /\ IsMetadata(md) /\ md # Empty /\ MetadataSize(md) # Empty
         /\ complete => md.run = run
    <2>1. /\ IsMetadata(md)
          /\ complete => md.run = run
      BY <1>1, <1>5, <1>12, Closing DEF HeldMetadata
    <2> QED BY <2>1, NotEmpty
  <1>14. /\ x = <<"metadata", f>> => c = md
         /\ x = <<"size", f>> => c = MetadataSize(md)
    <2>1. /\ <<"metadata", f>>[1] = "metadata"
          /\ <<"size", f>>[1] = "size" /\ <<"size", f>>[2] = f
      OBVIOUS
    <2> QED BY <1>7, <1>12, <2>1 DEF Output
  <1>15. Alone' /\ IndexerHolds' /\ Written' /\ NotYet'
    BY <1>6, <1>9, <1>10 DEF Alone, IndexerHolds, Written, NotYet
  <1>16. /\ \A k \in Shared : disk'[<<k, "all">>] = disk[<<k, "all">>]
         /\ \A g \in Fields : /\ OnDisk(g)' = IF x = <<"metadata", g>> THEN c ELSE OnDisk(g)
                              /\ SizeOnDisk(g)' = IF x = <<"size", g>> THEN c
                                                                       ELSE SizeOnDisk(g)
    <2>1. \A k \in Shared : <<k, "all">> # x
      BY <1>5 DEF Fields
    <2> QED BY <1>8, <2>1, FileNames DEF OnDisk, SizeOnDisk
  <1>17. /\ \A g \in Fields : /\ x = <<"metadata", g>> => g = f /\ x # <<"size", g>>
                              /\ x = <<"size", g>> => g = f /\ x # <<"metadata", g>>
    BY <1>11
  <1>18. ASSUME complete
         PROVE  \A g \in Fields :
                  Matches(g, held["server"][<<"metadata", g>>], held["server"][<<"size", g>>])
    BY <1>3, <1>18 DEF RunInv, LoadedMatches
  <1>19. OfLastRun'
    BY <1>6, <1>9, <1>10, <1>13, <1>14, <1>16, <1>17 DEF RunInv, OfLastRun
  <1>20. SizesMatch'
    <2> SUFFICES ASSUME complete, NEW g \in Fields, SizeOnDisk(g)' # Empty, OnDisk(g)' # Empty
                 PROVE  SizeOnDisk(g)' = MetadataSize(OnDisk(g)')
      BY <1>9 DEF SizesMatch, MetadataSize
    <2>1. CASE x = <<"metadata", g>>
      BY <1>12, <1>13, <1>14, <1>16, <1>17, <1>18, <2>1 DEF Matches
    <2>2. CASE x = <<"size", g>>
      BY <1>12, <1>13, <1>14, <1>16, <1>17, <1>18, <2>2 DEF Matches
    <2>3. CASE x # <<"metadata", g>> /\ x # <<"size", g>>
      BY <1>16, <2>3 DEF RunInv, SizesMatch
    <2> QED BY <2>1, <2>2, <2>3
  <1>21. Loaded'
    <2>1. \A j \in 1..8 : j < pc["server"]
      BY <1>1, <1>5
    <2> QED BY <1>3, <1>9, <2>1 DEF RunInv, Loaded, OfRun, RunOf
  <1>22. SizeLoaded'
    <2>1. pc["server"] > 3 /\ pc["server"] > 5
      BY <1>1, <1>5
    <2> QED BY <1>9, <2>1 DEF RunInv, SizeLoaded
  <1>23. LoadedMatches'
    <2> SUFFICES ASSUME complete, pc'["server"] # 0, NEW g \in Fields
                 PROVE  Matches(g, held["server"][<<"metadata", g>>],
                                held["server"][<<"size", g>>])'
      BY <1>9 DEF LoadedMatches
    <2>1. ~ (pc'["server"] <= 8)
      BY <1>6
    <2>2. CASE x = <<"metadata", g>>
      BY <1>9, <1>12, <1>14, <1>16, <1>17, <1>18, <2>1, <2>2 DEF Matches, MetadataSize
    <2>3. CASE x = <<"size", g>>
      BY <1>9, <1>12, <1>14, <1>16, <1>17, <1>18, <2>1, <2>3 DEF Matches, MetadataSize
    <2>4. CASE x # <<"metadata", g>> /\ x # <<"size", g>>
      BY <1>9, <1>16, <1>18, <2>1, <2>4 DEF Matches, MetadataSize
    <2> QED BY <2>2, <2>3, <2>4
  <1>24. Rewriting'
    <2> SUFFICES ASSUME complete, ~cut, NEW y \in Files, disk'[y] = Empty
                 PROVE  FALSE
      BY <1>9 DEF Rewriting
    <2>1. CASE y = x
      BY <1>8, <1>11, <1>13, <1>14, <2>1
    <2>2. CASE y # x
      BY <1>2, <1>8, <2>2 DEF RunInv, Rewriting
    <2> QED BY <2>1, <2>2
  <1>25. RefusesWithReason' /\ OpensInBuffer'
    BY <1>9, <1>10 DEF RefusesWithReason, OpensInBuffer
  <1> QED BY <1>15, <1>19, <1>20, <1>21, <1>22, <1>23, <1>24, <1>25 DEF RunInv

LEMMA KillKeepsRuns ==
  ASSUME IInv, RunInv, NEW p \in Procs, Kill(p)  PROVE RunInv'
  <1>1. TypeOK /\ pc[p] # 0
    BY DEF IInv, Kill
  <1>2. \A q \in Procs : pc'[q] = IF q = p THEN 0 ELSE pc[q]
    <2>1. PICK k : k = 0
      OBVIOUS
    <2>2. pc' = [pc EXCEPT ![p] = k]
      BY <2>1 DEF Kill
    <2> QED BY <1>1, <2>1, <2>2, PcOf
  <1>3. /\ UNCHANGED <<disk, run, held, complete>> /\ outcome' = "none"
        /\ cut' = (cut \/ (p = "server" /\ (At(p, "truncate") \/ At(p, "write"))))
    BY DEF Kill
  <1>4. /\ pc'["indexer"] # 0 => pc["indexer"] = pc'["indexer"]
        /\ pc'["server"] # 0 => pc["server"] = pc'["server"]
        /\ pc'["indexer"] = 0 \/ pc'["server"] = 0
    BY <1>1, <1>2 DEF RunInv, Alone, Procs
  <1>5. /\ pc'["indexer"] \in Nat /\ pc'["server"] \in Nat
        /\ complete => pc["indexer"] = 0
    BY <1>1, <1>2 DEF TypeOK, PcType, RunInv, OfLastRun, Procs
  <1>6. Alone' /\ IndexerHolds' /\ NotYet'
    BY <1>3, <1>4, <1>5 DEF RunInv, Alone, IndexerHolds, NotYet
  <1>7. Written'
    <2> SUFFICES ASSUME NEW j \in 1..18, j < pc'["indexer"], IndexerSteps[j].do = "write"
                 PROVE  disk'[IndexerSteps[j].file] = Output("indexer", IndexerSteps[j].file)'
      BY DEF Written
    <2>1. j < pc["indexer"]
      BY <1>4, <1>5
    <2> QED BY <1>3, <2>1, OutputSame DEF RunInv, Written
  <1>8. OfLastRun' /\ SizesMatch'
    BY <1>2, <1>3, <1>5 DEF RunInv, OfLastRun, SizesMatch, OnDisk, SizeOnDisk, MetadataSize, Procs
  <1>9. Loaded' /\ SizeLoaded' /\ LoadedMatches'
    <2>1. CASE pc'["server"] = 0
      BY <2>1 DEF Loaded, SizeLoaded, LoadedMatches
    <2>2. CASE pc'["server"] # 0
      <3>1. pc["server"] = pc'["server"]
        BY <1>4, <2>2
      <3> QED BY <1>3, <2>2, <3>1
              DEF RunInv, Loaded, SizeLoaded, LoadedMatches, Matches, OfRun, RunOf, OnDisk,
                  SizeOnDisk, MetadataSize
    <2> QED BY <2>1, <2>2
  <1>10. Rewriting'
    <2> SUFFICES ASSUME complete, ~cut', NEW y \in Files, disk[y] = Empty
                 PROVE  FALSE
      BY <1>3 DEF Rewriting
    <2>1. At("server", "write")
      BY <1>3 DEF RunInv, Rewriting
    <2>2. p = "server"
      BY <1>1, <1>5 DEF Procs
    <2> QED BY <1>3, <2>1, <2>2
  <1>11. RefusesWithReason' /\ OpensInBuffer'
    BY <1>3 DEF RefusesWithReason, OpensInBuffer
  <1> QED BY <1>6, <1>7, <1>8, <1>9, <1>10, <1>11 DEF RunInv

\* A server that gives up leaves the disk as it is; whether it may give up is
\* settled by each of the two actions.
LEMMA StopKeepsRuns ==
  ASSUME IInv, RunInv, NEW o \in {"refused", "panicked"}, Stop(o), At("server", "read"),
         UNCHANGED <<disk, index, run, appended, complete, cut>>,
         o = "refused" => ~complete \/ cut, o = "panicked" => ~Intact
  PROVE  RunInv'
  <1>1. TypeOK /\ pc["server"] # 0 /\ pc["indexer"] = 0
    BY ServerRuns DEF At
  <1>2. pc'["server"] = 0 /\ pc'["indexer"] = 0 /\ outcome' = o
    BY <1>1 DEF Stop, TypeOK, PcType, Procs
  <1>3. ~ At("server", "write")
    BY <1>1, ServerIs
  <1>4. Alone' /\ IndexerHolds' /\ Written' /\ Loaded' /\ SizeLoaded' /\ LoadedMatches'
    BY <1>2 DEF Alone, IndexerHolds, Written, Loaded, SizeLoaded, LoadedMatches
  <1>5. NotYet' /\ OfLastRun' /\ SizesMatch'
    BY <1>2 DEF RunInv, NotYet, OfLastRun, SizesMatch, OnDisk, SizeOnDisk, MetadataSize
  <1>6. Rewriting'
    BY <1>3 DEF RunInv, Rewriting
  <1>7. RefusesWithReason' /\ OpensInBuffer'
    BY <1>2 DEF RefusesWithReason, OpensInBuffer, Intact
  <1> QED BY <1>4, <1>5, <1>6, <1>7 DEF RunInv

LEMMA RefuseKeepsRuns ==
  ASSUME IInv, RunInv, Refuse  PROVE RunInv'
  <1>1. TypeOK /\ pc["server"] # 0
    BY DEF IInv, Refuse, At
  <1>2. ~ At("server", "write") /\ File("server") \in Files /\ disk[File("server")] = Empty
    BY <1>1, ServerIs DEF Refuse
  <1>3. ~complete \/ cut
    BY <1>2 DEF RunInv, Rewriting
  <1> QED BY <1>3, StopKeepsRuns DEF Refuse

LEMMA DeserializePanicsKeepsRuns ==
  ASSUME IInv, RunInv, DeserializePanics  PROVE RunInv'
  <1>1. PICK i : i = pc["server"]
    OBVIOUS
  <1>2. PICK x : x = File("server")
    OBVIOUS
  <1>3. TypeOK /\ pc["server"] # 0
    BY DEF IInv, DeserializePanics, At
  <1>4. /\ i \in 1..8 /\ x = ServerSteps[i].file /\ x \in Files /\ x[1] = "metadata"
        /\ disk[x] # Empty /\ held["server"][<<"size", x[2]>>] < MetadataSize(disk[x])
    <2>1. /\ i \in 1..17 /\ ServerSteps[i].do = "read" /\ x = ServerSteps[i].file
          /\ x \in Files
      BY <1>1, <1>2, <1>3, ServerIs DEF DeserializePanics
    <2> QED BY <1>2, <2>1, ServerOrder DEF DeserializePanics, ShortBuffer
  <1>5. i = 4 \/ i = 6
    <2>1. i \in 1..17
      BY <1>4
    <2> QED BY <1>4, <2>1, ServerOrder
  <1>6. PICK f \in Fields : /\ x = <<"metadata", f>> /\ x[2] = f
                            /\ held["server"][<<"size", f>>] # Empty
    <2>1. /\ i = 4 => x = <<"metadata", "name">>
          /\ i = 6 => x = <<"metadata", "address">>
      BY <1>4, ServerList DEF Do
    <2>2. /\ i = 4 => held["server"][<<"size", "name">>] # Empty
          /\ i = 6 => held["server"][<<"size", "address">>] # Empty
      BY <1>1 DEF RunInv, SizeLoaded
    <2> QED BY <1>5, <2>1, <2>2 DEF Fields
  <1>7. ~Intact
    <2>1. ASSUME complete  PROVE FALSE
      <3>1. Matches(f, held["server"][<<"metadata", f>>], held["server"][<<"size", f>>])
        BY <1>3, <2>1 DEF RunInv, LoadedMatches
      <3>2. held["server"][<<"size", f>>] = MetadataSize(disk[x])
        <4>1. pc["server"] <= 8
          BY <1>1, <1>4
        <4> QED BY <1>4, <1>6, <3>1, <4>1 DEF Matches, OnDisk
      <3>3. MetadataSize(disk[x]) \in Nat
        <4>1. IsMetadata(disk[x])
          BY <1>3, <1>4, <1>6, MetadataFits DEF TypeOK, DiskType
        <4> QED BY <4>1, NotEmpty
      <3> QED BY <1>4, <1>6, <3>2, <3>3
    <2>2. ASSUME run = 1, ~complete  PROVE FALSE
      BY <1>1, <1>3, <1>5, <2>2, ServerRuns
    <2> QED BY <2>1, <2>2 DEF Intact
  <1> QED BY <1>7, StopKeepsRuns DEF DeserializePanics

LEMMA LoadKeepsRuns ==
  ASSUME IInv, RunInv, Load  PROVE RunInv'
  <1>1. PICK i : i = pc["server"]
    OBVIOUS
  <1>2. PICK x : x = File("server")
    OBVIOUS
  <1>3. TypeOK /\ pc["server"] # 0
    BY DEF IInv, Load, At
  <1>4. /\ i \in 1..8 /\ x = ServerSteps[i].file /\ x \in Files /\ disk[x] # Empty
        /\ ~ At("server", "write")
    <2>1. /\ i \in 1..17 /\ ServerSteps[i].do = "read" /\ x = ServerSteps[i].file
          /\ x \in Files /\ ~ At("server", "write")
      BY <1>1, <1>2, <1>3, ServerIs DEF Load
    <2> QED BY <1>2, <2>1, ServerOrder DEF Load
  <1>5. pc'["server"] = i + 1 /\ pc'["indexer"] = pc["indexer"]
    BY <1>1, <1>3 DEF Load, TypeOK, PcType, Procs
  <1>6. \A y \in Files : held'["server"][y] = IF y = x THEN disk[x] ELSE held["server"][y]
    <2>1. held' = [held EXCEPT !["server"][x] = disk[x]]
      BY <1>2 DEF Load
    <2> QED BY <1>3, <1>4, <2>1 DEF TypeOK, HeldType, Procs
  <1>7. UNCHANGED <<disk, run, complete, cut>>
    BY DEF Load
  <1>8. pc["indexer"] = 0 /\ outcome = "none" /\ (run <= 1 /\ ~complete => i = 1)
    BY <1>1, <1>3, <1>4, ServerRuns
  <1>9. outcome' = IF i = 8 THEN "up" ELSE "none"
    <2>1. i + 1 \in 1..17 /\ (i + 1 = 9 <=> i = 8)
      BY <1>4
    <2>2. outcome' = IF ServerSteps[i + 1].do = "serve" THEN "up" ELSE outcome
      BY <1>1 DEF Load
    <2> QED BY <1>8, <2>1, <2>2, ServerOrder
  <1>10. Alone' /\ IndexerHolds' /\ Written'
    BY <1>4, <1>5, <1>8, <1>9 DEF Alone, IndexerHolds, Written
  <1>11. NotYet'
    <2> SUFFICES ASSUME run <= 1, ~complete  PROVE FALSE
      BY <1>7 DEF NotYet
    <2>1. x = Meta
      BY <1>4, <1>8, ServerList DEF Do, Meta
    <2> QED BY <1>4, <2>1 DEF RunInv, NotYet
  <1>12. OfLastRun' /\ SizesMatch'
    BY <1>5, <1>7 DEF RunInv, OfLastRun, SizesMatch, OnDisk, SizeOnDisk, MetadataSize
  <1>13. ASSUME complete  PROVE OfRun(x, disk[x])
    <2>1. CASE \E k \in Shared : x = <<k, "all">>
      <3>1. disk[x] = run /\ x[1] # "metadata"
        BY <1>13, <2>1 DEF RunInv, OfLastRun, Shared
      <3> QED BY <1>4, <3>1 DEF OfRun, RunOf
    <2>2. CASE \E f \in Fields : x = <<"metadata", f>>
      <3>1. disk[x].run = run /\ x[1] = "metadata"
        BY <1>4, <1>13, <2>2 DEF RunInv, OfLastRun, OnDisk
      <3> QED BY <1>4, <3>1 DEF OfRun, RunOf
    <2>3. CASE \E f \in Fields : x = <<"size", f>>
      BY <1>4, <2>3 DEF OfRun
    <2> QED BY <1>4, <2>1, <2>2, <2>3 DEF Files
  <1>14. Loaded'
    <2> SUFFICES ASSUME complete, NEW j \in 1..8, j < i + 1
                 PROVE  OfRun(ServerSteps[j].file, held["server"][ServerSteps[j].file])'
      BY <1>5, <1>7 DEF Loaded
    <2>1. PICK y : y = ServerSteps[j].file
      OBVIOUS
    <2>2. y \in Files
      BY <2>1, StepFiles
    <2>3. OfRun(y, held'["server"][y])
      <3>1. CASE y = x
        BY <1>6, <1>13, <2>2, <3>1
      <3>2. CASE y # x
        <4>1. j < i
          BY <1>4, <2>1, <3>2
        <4> QED BY <1>1, <1>3, <1>6, <2>1, <2>2, <3>2, <4>1 DEF RunInv, Loaded
      <3> QED BY <3>1, <3>2
    <2> QED BY <1>7, <2>1, <2>3 DEF OfRun, RunOf
  <1>15. SizeLoaded'
    <2>1. ASSUME i + 1 > 3  PROVE held'["server"][<<"size", "name">>] # Empty
      <3>1. i = 3 \/ i > 3
        BY <1>4, <2>1
      <3>2. i = 3 => x = <<"size", "name">>
        BY <1>4, ServerList DEF Do
      <3> QED BY <1>1, <1>4, <1>6, <3>1, <3>2, FileNames DEF RunInv, SizeLoaded, Fields
    <2>2. ASSUME i + 1 > 5  PROVE held'["server"][<<"size", "address">>] # Empty
      <3>1. i = 5 \/ i > 5
        BY <1>4, <2>2
      <3>2. i = 5 => x = <<"size", "address">>
        BY <1>4, ServerList DEF Do
      <3> QED BY <1>1, <1>4, <1>6, <3>1, <3>2, FileNames DEF RunInv, SizeLoaded, Fields
    <2> QED BY <1>5, <2>1, <2>2 DEF SizeLoaded
  <1>16. LoadedMatches'
    <2> SUFFICES ASSUME complete, NEW f \in Fields
                 PROVE  Matches(f, held["server"][<<"metadata", f>>],
                                held["server"][<<"size", f>>])'
      BY <1>7 DEF LoadedMatches
    <2>1. Matches(f, held["server"][<<"metadata", f>>], held["server"][<<"size", f>>])
      BY <1>3 DEF RunInv, LoadedMatches
    <2>2. /\ SizeOnDisk(f) # Empty /\ OnDisk(f) # Empty =>
               SizeOnDisk(f) = MetadataSize(OnDisk(f))
      BY DEF RunInv, SizesMatch
    <2>3. /\ <<"metadata", f>> \in Files /\ <<"size", f>> \in Files
          /\ <<"metadata", f>> # <<"size", f>> /\ pc["server"] <= 8
      BY <1>1, <1>4, FileNames
    <2>4. CASE x = <<"metadata", f>>
      BY <1>6, <1>7, <2>1, <2>2, <2>3, <2>4
         DEF Matches, OnDisk, SizeOnDisk, MetadataSize
    <2>5. CASE x = <<"size", f>>
      BY <1>6, <1>7, <2>1, <2>2, <2>3, <2>5
         DEF Matches, OnDisk, SizeOnDisk, MetadataSize
    <2>6. CASE x # <<"metadata", f>> /\ x # <<"size", f>>
      BY <1>6, <1>7, <2>1, <2>3, <2>6 DEF Matches, OnDisk, SizeOnDisk, MetadataSize
    <2> QED BY <2>4, <2>5, <2>6
  <1>17. Rewriting'
    BY <1>4, <1>7 DEF RunInv, Rewriting
  <1>18. RefusesWithReason' /\ OpensInBuffer'
    BY <1>9 DEF RefusesWithReason, OpensInBuffer
  <1> QED BY <1>10, <1>11, <1>12, <1>14, <1>15, <1>16, <1>17, <1>18 DEF RunInv

LEMMA ShutdownKeepsRuns ==
  ASSUME IInv, RunInv, Shutdown  PROVE RunInv'
  <1>1. TypeOK /\ pc["server"] # 0
    BY DEF IInv, Shutdown, At
  <1>2. /\ pc["server"] = 9 /\ ~ At("server", "write")
    <2>1. /\ pc["server"] \in 1..17 /\ ServerSteps[pc["server"]].do = "serve"
          /\ ~ At("server", "write")
      BY <1>1, ServerIs DEF Shutdown
    <2> QED BY <2>1, ServerOrder
  <1>3. pc'["server"] = 10 /\ pc'["indexer"] = pc["indexer"]
    BY <1>1, <1>2 DEF Shutdown, TypeOK, PcType, Procs
  <1>4. UNCHANGED <<disk, held, run, complete, cut>> /\ outcome' = "none"
    BY DEF Shutdown
  <1>5. pc["indexer"] = 0 /\ (run <= 1 => complete)
    BY <1>1, <1>2, ServerRuns
  <1>6. Alone' /\ IndexerHolds' /\ Written' /\ NotYet'
    BY <1>3, <1>4, <1>5 DEF Alone, IndexerHolds, Written, NotYet
  <1>7. OfLastRun' /\ SizesMatch'
    BY <1>3, <1>4 DEF RunInv, OfLastRun, SizesMatch, OnDisk, SizeOnDisk, MetadataSize
  <1>8. Loaded' /\ SizeLoaded'
    <2>1. /\ \A j \in 1..8 : j < pc["server"]
          /\ pc["server"] > 3 /\ pc["server"] > 5
      BY <1>2
    <2> QED BY <1>1, <1>4, <2>1 DEF RunInv, Loaded, SizeLoaded, OfRun, RunOf
  <1>9. LoadedMatches'
    <2>1. ~ (pc'["server"] <= 8)
      BY <1>3
    <2> QED BY <1>1, <1>4, <2>1
            DEF RunInv, LoadedMatches, Matches, OnDisk, SizeOnDisk, MetadataSize
  <1>10. Rewriting'
    BY <1>2, <1>4 DEF RunInv, Rewriting
  <1>11. RefusesWithReason' /\ OpensInBuffer'
    BY <1>4 DEF RefusesWithReason, OpensInBuffer
  <1> QED BY <1>6, <1>7, <1>8, <1>9, <1>10, <1>11 DEF RunInv

LEMMA StartServerKeepsRuns ==
  ASSUME IInv, RunInv, StartServer  PROVE RunInv'
  <1>1. TypeOK /\ pc["indexer"] = 0 /\ pc["server"] = 0
    BY DEF IInv, StartServer, Procs
  <1>2. pc'["server"] = 1 /\ pc'["indexer"] = 0
    BY <1>1 DEF StartServer, TypeOK, PcType, Procs
  <1>3. \A x \in Files : held'["server"][x] = Empty
    BY <1>1 DEF StartServer, TypeOK, HeldType, Procs
  <1>4. UNCHANGED <<disk, run, complete, cut>> /\ outcome' = "none"
    BY DEF StartServer
  <1>5. Alone' /\ IndexerHolds' /\ Written' /\ NotYet'
    BY <1>2, <1>4 DEF RunInv, Alone, IndexerHolds, Written, NotYet
  <1>6. OfLastRun' /\ SizesMatch'
    BY <1>2, <1>4 DEF RunInv, OfLastRun, SizesMatch, OnDisk, SizeOnDisk, MetadataSize
  <1>7. Loaded' /\ SizeLoaded'
    BY <1>2 DEF Loaded, SizeLoaded
  <1>8. LoadedMatches'
    BY <1>3, FileNames DEF LoadedMatches, Matches
  <1>9. Rewriting'
    BY <1>1, <1>4 DEF RunInv, Rewriting, At
  <1>10. RefusesWithReason' /\ OpensInBuffer'
    BY <1>4 DEF RefusesWithReason, OpensInBuffer
  <1> QED BY <1>5, <1>6, <1>7, <1>8, <1>9, <1>10 DEF RunInv

-----------------------------------------------------------------------------
(* The theorems                                                            *)

LEMMA InitRuns == Init => RunInv
  <1> SUFFICES ASSUME Init  PROVE RunInv
    OBVIOUS
  <1>1. /\ pc["indexer"] = 0 /\ pc["server"] = 0 /\ run = 0 /\ ~complete
        /\ outcome = "none" /\ disk[Meta] = Empty
    BY FileNames DEF Init, Procs, Meta, Shared
  <1> QED BY <1>1 DEF RunInv, Alone, IndexerHolds, Written, NotYet, OfLastRun, SizesMatch,
                      Loaded, SizeLoaded, LoadedMatches, Rewriting, RefusesWithReason,
                      OpensInBuffer

LEMMA StepRuns == IInv /\ RunInv /\ [Next]_vars => RunInv'
  <1> SUFFICES ASSUME IInv, RunInv, [Next]_vars  PROVE RunInv'
    OBVIOUS
  <1>1. ASSUME NEW p \in Procs, Truncate(p)  PROVE RunInv'
    BY <1>1, IndexerTruncateKeeps, ServerTruncateKeeps DEF Procs
  <1>2. ASSUME NEW p \in Procs, Write(p)  PROVE RunInv'
    BY <1>2, IndexerWriteKeeps, ServerWriteKeeps DEF Procs
  <1>3. ASSUME NEW p \in Procs, Kill(p)  PROVE RunInv'
    BY <1>3, KillKeepsRuns
  <1>4. ASSUME NEW f \in Fields, AppendPostingList(f)  PROVE RunInv'
    BY <1>4, IndexerAppendKeeps
  <1>5. CASE EndMerge
    BY <1>5, EndMergeKeepsRuns
  <1>6. CASE Refuse
    BY <1>6, RefuseKeepsRuns
  <1>7. CASE DeserializePanics
    BY <1>7, DeserializePanicsKeepsRuns
  <1>8. CASE Load
    BY <1>8, LoadKeepsRuns
  <1>9. CASE Shutdown
    BY <1>9, ShutdownKeepsRuns
  <1>10. CASE StartIndexer
    BY <1>10, StartIndexerKeepsRuns
  <1>11. CASE StartServer
    BY <1>11, StartServerKeepsRuns
  <1>12. CASE UNCHANGED vars
    <2>1. UNCHANGED <<disk, index, run, pc, held, appended, outcome, complete, cut>>
      BY <1>12 DEF vars
    <2>2. Alone' /\ IndexerHolds' /\ NotYet' /\ OfLastRun' /\ SizesMatch' /\ SizeLoaded'
      BY <2>1 DEF RunInv, Alone, IndexerHolds, NotYet, OfLastRun, SizesMatch, SizeLoaded,
                  OnDisk, SizeOnDisk, MetadataSize
    <2>3. Loaded' /\ LoadedMatches'
      BY <2>1 DEF RunInv, Loaded, LoadedMatches, OfRun, RunOf, Matches, OnDisk, SizeOnDisk,
                  MetadataSize
    <2>4. Written' /\ Rewriting'
      BY <2>1 DEF RunInv, Written, Rewriting, Output, MetadataSize, At, File
    <2>5. RefusesWithReason' /\ OpensInBuffer'
      BY <2>1 DEF RunInv, RefusesWithReason, OpensInBuffer, Intact
    <2> QED BY <2>2, <2>3, <2>4, <2>5 DEF RunInv
  <1> QED BY <1>1, <1>2, <1>3, <1>4, <1>5, <1>6, <1>7, <1>8, <1>9, <1>10, <1>11, <1>12
          DEF Next

\* A server that is up is behind all its reads, and what they found is of the last
\* run when that run is complete; the first run leaves nothing to start from
\* before it is complete.
LEMMA ServesFromRuns == IInv /\ RunInv => ServesOneRun
  <1> SUFFICES ASSUME IInv, RunInv, outcome = "up", Intact
               PROVE  /\ complete
                      /\ \A x \in Files :
                           \/ x[1] = "size"
                           \/ x[1] = "docs_store" /\ disk[x] = run
                           \/ /\ held["server"][x] # Empty
                              /\ RunOf(x, held["server"][x]) = run
    BY DEF ServesOneRun
  <1>1. pc["server"] = 9
    BY DEF RunInv, Alone
  <1>2. complete
    BY <1>1, ServerRuns DEF Intact
  <1>3. ASSUME NEW x \in Files, x # Docs
        PROVE  OfRun(x, held["server"][x])
    <2>1. PICK j \in 1..8 : ServerSteps[j].file = x
      BY <1>3, ServerReadsAll
    <2>2. j < pc["server"]
      BY <1>1
    <2> QED BY <1>1, <1>2, <2>1, <2>2 DEF RunInv, Loaded
  <1>4. Docs[1] = "docs_store" /\ disk[Docs] = run
    BY <1>2 DEF RunInv, OfLastRun, Docs, Shared
  <1> QED BY <1>2, <1>3, <1>4 DEF OfRun

LEMMA SpecRuns == Spec => [](IInv /\ RunInv)
  <1>1. Init => IInv /\ RunInv
    BY InitInv, InitRuns
  <1>2. IInv /\ RunInv /\ [Next]_vars => (IInv /\ RunInv)'
    BY StepInv, StepRuns
  <1> QED BY <1>1, <1>2, PTL DEF Spec

\* A server that comes up serves a completed run, and all it has loaded, and the
\* documents, are of that run: after kills of either program between any two
\* writes, unless a rerun of the indexer was killed.
THEOREM OneRunIsServed == Spec => []ServesOneRun
  BY SpecRuns, ServesFromRuns, PTL

\* LoadMeta and its like fail only when the last run was not completed or a server
\* was killed in Searcher.Close: shutdowns that come to their end leave files that
\* open again, any number of times.
THEOREM RefusalsHaveReason == Spec => []RefusesWithReason
  <1>1. RunInv => RefusesWithReason
    BY DEF RunInv
  <1> QED BY <1>1, SpecRuns, PTL

\* DeserializeMetadata stays in the buffer that the size file asks for, unless a
\* rerun of the indexer was killed between the metadata and the size.
THEOREM BuffersAreLargeEnough == Spec => []OpensInBuffer
  <1>1. RunInv => OpensInBuffer
    BY DEF RunInv
  <1> QED BY <1>1, SpecRuns, PTL

=============================================================================
