---------------------------- MODULE MCCsvArchives ----------------------------
(***************************************************************************)
(* Instances of CsvArchives: processes sharing the directory while the     *)
(* server moves between releases, and one process across crashes.          *)
(***************************************************************************)
EXTENDS CsvArchives, TLC

CONSTANTS p1, p2, a, a2, b, c

\* Two releases, the older with a second edition; processes are alike.
TwoReleases == 1 .. 2
Reissued == 1 :> {a, a2} @@ 2 :> {b}

\* Three releases, so that a prune has an order to keep to.
ThreeReleases == 1 .. 3
OneEach  == 1 :> {a} @@ 2 :> {b} @@ 3 :> {c}

Processes == Permutations(Procs)

\* At most one .part file is left behind by a kill or a failed removal.
FewLeft ==
  Cardinality({<<v, p>> \in Versions \X Procs : part[v][p] = Left}) <= 1
=============================================================================
