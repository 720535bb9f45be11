----------------------------- MODULE IndexBuild -----------------------------
(***************************************************************************)
(* What the indexer promises, whatever its goroutines do: objects get      *)
(* document IDs one after the other, and then either the documents become  *)
(* searchable at once or the run fails and none does.  All of them do,     *)
(* except those of which some writes failed: they may or may not.          *)
(***************************************************************************)
EXTENDS Integers, Sequences

CONSTANT Objects  \* the OSM objects that may be indexed

VARIABLES
  assigned,   \* the indexed objects: the one with ID i is assigned[i+1]
  outcome,    \* "running", "ready" or "failed"
  published,  \* the IDs of the documents that can be searched
  damaged     \* the IDs of the documents that were not written in full

bvars == <<assigned, outcome, published, damaged>>

IDsGiven == 0..(Len(assigned) - 1)

Init ==
  /\ assigned = <<>>
  /\ outcome = "running"
  /\ published = {}
  /\ damaged = {}

Assign(o) ==
  /\ outcome # "ready"
  /\ \A i \in DOMAIN assigned : assigned[i] # o
  /\ assigned' = Append(assigned, o)
  /\ UNCHANGED <<outcome, published, damaged>>

\* A write of some documents fails, and the run goes on.
Damage(S) ==
  /\ outcome # "ready"
  /\ damaged' = damaged \cup S
  /\ UNCHANGED <<assigned, outcome, published>>

Publish ==
  /\ outcome = "running"
  /\ outcome' = "ready"
  /\ \E missing \in SUBSET damaged : published' = IDsGiven \ missing
  /\ UNCHANGED <<assigned, damaged>>

\* The run may still fail after the index is complete: nothing is served then.
Fail ==
  /\ outcome # "failed"
  /\ outcome' = "failed"
  /\ published' = {}
  /\ UNCHANGED <<assigned, damaged>>

Next == 
  \/ \E o \in Objects : Assign(o)
  \/ \E S \in SUBSET IDsGiven : Damage(S)
  \/ Publish
  \/ Fail

Spec == Init /\ [][Next]_bvars

=============================================================================
