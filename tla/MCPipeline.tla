------------------------------ MODULE MCPipeline ------------------------------
(***************************************************************************)
(* Instances of Pipeline, and a statement about failed runs that the code  *)
(* does not keep.                                                          *)
(***************************************************************************)
EXTENDS Pipeline

TwoReleases == 1 .. 2

\* Manual page, of clean: "acquiring the new data first means a failed run
\* leaves the existing database untouched".
FailedRunKeepsDatabase ==
  outcome = "failed" /\ run.ctx = "run" /\ "C" \in run.flags => db = before
=============================================================================
