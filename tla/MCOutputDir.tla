----------------------------- MODULE MCOutputDir -----------------------------
(***************************************************************************)
(* A small output directory for TLC: two country files, two releases and   *)
(* three builds.  The default build of v1 and its legacy build are of the  *)
(* same release; the legacy build has another content for the first file   *)
(* and writes the second one (EU) besides.  The build of v2 changes the    *)
(* first file and shares the second with the legacy build.                 *)
(***************************************************************************)
EXTENDS OutputDir, FiniteSets, TLC

CONSTANTS v1, v2, default1, legacy1, default2, a, b, c, d, sums,
          MaxFailed  \* bound on the failures of one operation

MCFiles == 1..2
MCVersionOf == [s \in Sources |-> IF s = default2 THEN v2 ELSE v1]
MCContent ==
  [s \in Sources |-> CASE s = default1 -> 1 :> a
                      [] s = legacy1  -> 1 :> b @@ 2 :> d
                      [] s = default2 -> 1 :> c @@ 2 :> d]

\* At most MaxFailed files of one operation cannot be written or unlinked.
FewFail == Cardinality(failed) <= MaxFailed

-----------------------------------------------------------------------------
\* The man page says of the files the orphaned file lists that they are safe
\* to remove: none of them is in the manifest of the database just built.
ListedIsSafeToRemove ==
  report = "built" /\ orphaned # Absent =>
    \A f \in DOMAIN manifest[version].lines : Country(f) \notin orphaned

\* The test a_failed_manifest_write_leaves_the_version_pointer_untouched and
\* its comment: a manifest write that fails leaves the previous pointer and
\* the previous manifest still agreeing with each other.
FailedManifestWriteKeepsPrevious ==
  [][pc = "manifest" /\ report' = "failed" =>
       /\ version' = version
       /\ version \in Versions => manifest'[version] = manifest[version]]_vars
=============================================================================
