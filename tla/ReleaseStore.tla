----------------------------- MODULE ReleaseStore -----------------------------
(***************************************************************************)
(* What the CSV side of the archive directory promises to whoever uses it: *)
(* a store of releases.  Anything stored for a release is an edition of it *)
(* that the server published, a release is dropped only when Keep newer    *)
(* ones are stored, and an operation that returns a release returns what   *)
(* is stored for it.                                                       *)
(***************************************************************************)
EXTENDS Integers, FiniteSets

CONSTANTS Procs, Versions, Editions, Keep, Absent

VARIABLES
  stored,  \* stored[v]: the edition of release v in the store, or Absent
  result   \* result[p]: what the last operation of process p ended with

vars == <<stored, result>>

Newer(v) == {w \in Versions : w > v /\ stored[w] # Absent}

Init ==
  /\ stored = [v \in Versions |-> Absent]
  /\ result = [p \in Procs |-> <<"none", Absent, Absent>>]

Put(v) ==
  /\ \E b \in Editions[v] : stored' = [stored EXCEPT ![v] = b]
  /\ UNCHANGED result

Drop(v) ==
  /\ Cardinality(Newer(v)) >= Keep
  /\ stored' = [stored EXCEPT ![v] = Absent]
  /\ UNCHANGED result

Return(p, v) ==
  /\ stored[v] # Absent
  /\ result' = [result EXCEPT ![p] = <<"fetched", v, stored[v]>>]
  /\ UNCHANGED stored

\* An operation begins, or ends without a release.
Other(p) ==
  /\ \E how \in {"none", "failed", "pruned", "killed"} :
       result' = [result EXCEPT ![p] = <<how, Absent, Absent>>]
  /\ UNCHANGED stored

Next ==
  \/ \E v \in Versions : Put(v) \/ Drop(v)
  \/ \E p \in Procs : Other(p) \/ \E v \in Versions : Return(p, v)

Spec == Init /\ [][Next]_vars
=============================================================================
