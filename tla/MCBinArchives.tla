---------------------------- MODULE MCBinArchives ----------------------------
(***************************************************************************)
(* Two processes that back up and prune at once: a verified and an         *)
(* unverified archive of one release, an archive of a newer one, and one   *)
(* of an unknown release.  One statement of a comment does not hold of     *)
(* them.                                                                   *)
(***************************************************************************)
EXTENDS BinArchives, TLC

CONSTANTS p1, p2, bin1, unverified1, bin2, unknown

MCRelease == bin1 :> 1 @@ unverified1 :> 1 @@ bin2 :> 2

\* At most one .part file is left behind, and one archive is shared.
FewLeft ==
  /\ Cardinality({n \in Names : part[n] # Absent /\ \A p \in Procs : ~Works(p, n)}) <= 1
  /\ Cardinality(shared) <= 1

Processes == Permutations(Procs)

-----------------------------------------------------------------------------
\* The comment on create_tarball: "Create tar.gz archive atomically: write to
\* `.part`, rename on success."  An archive under its final name is complete.
ArchivesAreComplete == \A n \in Names : archive[n] \in {Absent, Whole}
=============================================================================
