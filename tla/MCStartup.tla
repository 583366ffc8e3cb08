------------------------------ MODULE MCStartup ------------------------------
(***************************************************************************)
(* An instance of Startup: two processes, which may be of one command or   *)
(* of two, invoked again and again.                                        *)
(***************************************************************************)
EXTENDS Startup, TLC

Symmetry == Permutations(Procs)
=============================================================================
