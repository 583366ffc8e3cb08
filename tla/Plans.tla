-------------------------------- MODULE Plans --------------------------------
(***************************************************************************)
(* From flags to a plan: the guards of generated/cli_rules.rs, the actions *)
(* of cli.rs, the plans of generated/plan.rs and the directories they      *)
(* write (action.rs).  The contexts are the top level and the commands     *)
(* build, fetch and run; conf has no flags of this kind and no plan.       *)
(*                                                                         *)
(* Every plan runs its steps in one order, whatever the context, so a plan *)
(* is a set of steps and Rank is the order.                                *)
(***************************************************************************)
EXTENDS Integers, Sequences

Flags    == {"B", "C", "F", "L", "P"}
Contexts == {"top", "build", "fetch", "run"}

(***************************************************************************)
(* The guards.                                                             *)
(***************************************************************************)
Guard(require, forbid, key) == [require |-> require, forbid |-> forbid, key |-> key]

TopLevelGuards == <<
  Guard({"L"}, {}, "top_level_legacy"),
  Guard({"P"}, {"B", "C"}, "top_level_prune_no_target"),
  Guard({"F"}, {"B", "C"}, "top_level_force_no_target"),
  Guard({"C", "P", "F"}, {"B"}, "top_level_prune_clean_force"),
  Guard({"C", "P"}, {"B"}, "top_level_prune_with_clean"),
  Guard({"B", "P", "F"}, {}, "top_level_prune_force"),
  Guard({"B", "C", "F"}, {}, "top_level_force_ambiguous") >>

BuildGuards == <<
  Guard({"F"}, {"B", "C"}, "build_force_no_target"),
  Guard({"P"}, {"B"}, "build_prune_no_backup"),
  Guard({"P", "F"}, {}, "build_prune_force"),
  Guard({"B", "C", "F"}, {}, "build_force_ambiguous") >>

FetchGuards == <<
  Guard({"L"}, {}, "fetch_no_legacy"),
  Guard({"B"}, {}, "fetch_no_backup"),
  Guard({"C"}, {}, "fetch_no_clean"),
  Guard({"F"}, {}, "fetch_no_force") >>

\* Faulty: -f may come without anything to force.
RunGuardsIdleForce == <<
  Guard({"P", "F"}, {}, "run_prune_force"),
  Guard({"B", "P"}, {}, "run_prune_ambiguous"),
  Guard({"B", "C", "F"}, {}, "run_force_ambiguous") >>

RunGuards == <<
  Guard({"F"}, {"B", "C"}, "run_force_no_target"),
  Guard({"P", "F"}, {}, "run_prune_force"),
  Guard({"B", "P"}, {}, "run_prune_ambiguous"),
  Guard({"B", "C", "F"}, {}, "run_force_ambiguous") >>

Guards(c) == CASE c = "top" -> TopLevelGuards [] c = "build" -> BuildGuards
               [] c = "fetch" -> FetchGuards  [] c = "run" -> RunGuards

Fires(g, flags) == g.require \subseteq flags /\ g.forbid \cap flags = {}

Firing(c, flags) == {i \in DOMAIN Guards(c) : Fires(Guards(c)[i], flags)}

\* The message a refused combination gets: that of the first guard to fire.
FirstGuard(c, flags) ==
  Guards(c)[CHOOSE i \in Firing(c, flags) : \A j \in Firing(c, flags) : i <= j].key

(***************************************************************************)
(* The plans.                                                              *)
(***************************************************************************)
\* A combination no guard refuses is an action, the help text, or an error
\* of its own.
Outcome(c, flags) ==
  IF Firing(c, flags) # {} THEN "refused"
  ELSE IF c # "top" \/ flags \cap {"B", "C"} # {} THEN "action"
  ELSE IF flags = {} THEN "help" ELSE "unsupported"

Accepted(c, flags) == Outcome(c, flags) = "action"

If(flag, flags, op) == IF flag \in flags THEN {op} ELSE {}

TopLevelPlan(flags) ==
  IF "B" \in flags
    THEN {"backup"} \cup If("P", flags, "prune_bin") \cup If("C", flags, "clean")
    ELSE {"clean"}

FetchPlan(flags) == {"fetch"} \cup If("P", flags, "prune_csv")

RunPlan(flags) ==
  {"fetch", "build"} \cup If("B", flags, "backup") \cup If("C", flags, "clean")
    \cup If("P", flags, "prune_csv")

BuildPlan(flags) ==
  {"fetch", "build"} \cup If("B", flags, "backup") \cup If("P", flags, "prune_bin")
    \cup If("C", flags, "clean")

Plan(c, flags) == CASE c = "top" -> TopLevelPlan(flags) [] c = "build" -> BuildPlan(flags)
                    [] c = "fetch" -> FetchPlan(flags)  [] c = "run" -> RunPlan(flags)

Ops == {"backup", "prune_bin", "fetch", "clean", "prune_csv", "build"}

\* Faulty: the output directory is cleaned before the archive is in hand.
RankCleanFirst ==
  [op \in Ops |-> CASE op = "backup" -> 1 [] op = "prune_bin" -> 2 [] op = "clean" -> 3
                    [] op = "fetch" -> 4 [] op = "prune_csv" -> 5 [] op = "build" -> 6]

\* Faulty: the output directory is cleaned before it is backed up.
RankBackupLate ==
  [op \in Ops |-> CASE op = "clean" -> 1 [] op = "backup" -> 2 [] op = "prune_bin" -> 3
                    [] op = "fetch" -> 4 [] op = "prune_csv" -> 5 [] op = "build" -> 6]

\* Faulty: the output directory is cleaned when the build is done.
RankCleanLast ==
  [op \in Ops |-> CASE op = "backup" -> 1 [] op = "prune_bin" -> 2 [] op = "fetch" -> 3
                    [] op = "prune_csv" -> 4 [] op = "build" -> 5 [] op = "clean" -> 6]

Rank ==
  [op \in Ops |-> CASE op = "backup" -> 1 [] op = "prune_bin" -> 2 [] op = "fetch" -> 3
                    [] op = "clean" -> 4 [] op = "prune_csv" -> 5 [] op = "build" -> 6]

\* backup_mode: one mode for the backup and the clean of a plan.
Forced(flags) == "F" \in flags

\* Only run and fetch go to the network.
Remote(c) == c # "build"

(***************************************************************************)
(* The directories a plan writes, which are probed before its first step.  *)
(***************************************************************************)
Dirs == {"archive", "output"}

StepWrites(c, op) ==
  CASE op \in {"backup", "prune_csv", "prune_bin"} -> {"archive"}
    [] op = "fetch" -> IF Remote(c) THEN {"archive"} ELSE {}
    [] op = "clean" -> {"output"}

DirsWritten(c, flags) ==
  (UNION {StepWrites(c, op) : op \in Plan(c, flags) \ {"build"}})
    \cup (IF "build" \in Plan(c, flags) THEN {"output"} ELSE {})
=============================================================================
