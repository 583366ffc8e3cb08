------------------------------- MODULE MCSuite -------------------------------
(***************************************************************************)
(* The suite with docs/spec/cli.yaml as it is (a letter is written as a    *)
(* capital, a reason code as the error key it is the text of), and with    *)
(* slips an author could make in it.                                       *)
(***************************************************************************)
EXTENDS TestRun, TLC

\* An example, written with short flags of the specification.
Example(id, flags, key, steps) ==
  [id |-> id, flags |-> flags, plain |-> TRUE, valid |-> key = None, outcome |-> key = None,
   reason |-> key, maps_to |-> key, steps |-> steps, rebuild |-> FALSE]

Does(id, flags, steps) == Example(id, flags, None, steps)
Refused(id, flags, key) == Example(id, flags, key, NoSteps)
Rebuilt(e) == [e EXCEPT !.rebuild = TRUE]

\* reject is declared for fetch alone.
Command(allowed, reject, guards, examples) ==
  [kind |-> "flags", allowed |-> allowed, reject |-> reject, guards |-> guards,
   examples |-> examples]

Reject(flag, error) == [flag |-> flag, error |-> error]

TopLevel == Command(Flags \ {"L"}, <<Reject("L", "top_level_legacy")>>, Tail(TopLevelGuards), <<
  Refused("TL-001", {}, "top_level_no_args"),
  [Does("TL-002", {}, NoSteps) EXCEPT !.plain = FALSE],
  Refused("TL-003", {"L"}, "top_level_legacy"),
  Refused("TL-004", {"F"}, "top_level_force_no_target"),
  Refused("TL-005", {"P"}, "top_level_prune_no_target"),
  Does("TL-006", {"B"}, <<"backup">>),
  Rebuilt(Does("TL-007", {"C"}, <<"clean">>)),
  Rebuilt(Does("TL-008", {"B", "C"}, <<"backup", "clean">>)),
  Does("TL-009", {"B", "P"}, <<"backup", "prune_bin">>),
  Refused("TL-010", {"C", "P"}, "top_level_prune_with_clean"),
  Refused("TL-011", {"B", "P", "F"}, "top_level_prune_force"),
  Refused("TL-012", {"C", "P", "F"}, "top_level_prune_clean_force"),
  Does("TL-013", {"B", "F"}, <<"backup">>),
  Rebuilt(Refused("TL-014", {"B", "C", "F"}, "top_level_force_ambiguous")),
  Rebuilt(Does("TL-015", {"B", "C", "P"}, <<"backup", "prune_bin", "clean">>)) >>)

Fetching == Command({"P"},
  <<Reject("L", "fetch_no_legacy"), Reject("B", "fetch_no_backup"),
    Reject("C", "fetch_no_clean"), Reject("F", "fetch_no_force")>>, <<>>, <<
  Does("F-001", {}, <<"fetch">>),
  Does("F-002", {"P"}, <<"fetch", "prune_csv">>),
  Refused("F-003", {"L"}, "fetch_no_legacy"),
  Refused("F-004", {"B"}, "fetch_no_backup"),
  Refused("F-005", {"C"}, "fetch_no_clean"),
  Refused("F-006", {"F"}, "fetch_no_force") >>)

Building == Command(Flags, <<>>, BuildGuards, <<
  Does("B-001", {}, <<"fetch", "build">>),
  Does("B-002", {"L"}, <<"fetch", "build">>),
  Does("B-003", {"B", "P"}, <<"backup", "prune_bin", "fetch", "build">>),
  Refused("B-004", {"P"}, "build_prune_no_backup"),
  Does("B-005", {"C", "F"}, <<"fetch", "clean", "build">>),
  Does("B-006", {"B", "C", "P"}, <<"backup", "prune_bin", "fetch", "clean", "build">>),
  Refused("B-007", {"B", "P", "F"}, "build_prune_force"),
  Refused("B-008", {"F"}, "build_force_no_target"),
  Does("B-009", {"B"}, <<"backup", "fetch", "build">>),
  Does("B-010", {"C"}, <<"fetch", "clean", "build">>),
  Does("B-011", {"B", "C"}, <<"backup", "fetch", "clean", "build">>),
  Does("B-012", {"B", "F"}, <<"backup", "fetch", "build">>),
  Refused("B-013", {"B", "C", "F"}, "build_force_ambiguous") >>)

Running == Command(Flags, <<>>, RunGuards, <<
  Does("R-001", {}, <<"fetch", "build">>),
  Does("R-002", {"L"}, <<"fetch", "build">>),
  Does("R-003", {"P"}, <<"fetch", "prune_csv", "build">>),
  Does("R-004", {"C", "P"}, <<"fetch", "clean", "prune_csv", "build">>),
  Does("R-005", {"C", "F"}, <<"fetch", "clean", "build">>),
  Refused("R-006", {"B", "P", "F"}, "run_prune_force"),
  Refused("R-008", {"F"}, "run_force_no_target"),
  Does("R-009", {"B"}, <<"backup", "fetch", "build">>),
  Does("R-010", {"B", "C"}, <<"backup", "fetch", "clean", "build">>),
  Does("R-011", {"B", "F"}, <<"backup", "fetch", "build">>),
  Refused("R-012", {"B", "P"}, "run_prune_ambiguous"),
  Refused("R-013", {"B", "C", "F"}, "run_force_ambiguous") >>)

Conf == [Command({}, <<>>, <<>>, <<
  Refused("C-001", {}, "conf_missing_flag"),
  Does("C-002", {"S"}, <<>>), Does("C-003", {"D"}, <<>>),
  Does("C-004", {"E"}, <<>>), Does("C-005", {"C"}, <<>>) >>) EXCEPT !.kind = "selector"]

Commands == [top |-> TopLevel, fetch |-> Fetching, build |-> Building, run |-> Running,
             conf |-> Conf]

Step(rank, param) == [rank |-> rank, param |-> param, why |-> TRUE]

Steps == [backup |-> Step(10, "backup_mode"), prune_bin |-> Step(20, None),
          fetch |-> Step(30, None), clean |-> Step(40, "backup_mode"),
          prune_csv |-> Step(50, None), build |-> Step(60, None)]

Context(always, selects, mode) == [always |-> always, selects |-> selects, mode |-> mode]

PlanContexts == [
  top   |-> Context(<<>>, [B |-> "backup", P |-> "prune_bin", C |-> "clean"], None),
  fetch |-> Context(<<"fetch">>, [P |-> "prune_csv"], "remote"),
  build |-> Context(<<"fetch", "build">>, [B |-> "backup", P |-> "prune_bin", C |-> "clean"], "local"),
  run   |-> Context(<<"fetch", "build">>, [B |-> "backup", C |-> "clean", P |-> "prune_csv"], "remote"),
  conf  |-> Context(<<>>, <<>>, None)]

\* error_cases.
Keys == {
  "top_level_no_args", "top_level_legacy", "top_level_force_no_target", "top_level_force_ambiguous",
  "top_level_prune_no_target", "top_level_prune_with_clean", "top_level_prune_clean_force",
  "top_level_prune_force", "fetch_no_legacy", "fetch_no_backup", "fetch_no_clean",
  "fetch_no_force", "build_force_no_target", "build_force_ambiguous", "build_prune_no_backup",
  "build_prune_force", "run_force_no_target", "run_force_ambiguous", "run_prune_force",
  "run_prune_ambiguous", "conf_missing_flag" }

CliYaml ==
  [current |-> TRUE, flags |-> Flags, options |-> {"config", "log_file"},
   errors |-> [k \in Keys |-> k], unique |-> TRUE, coverage |-> TRUE, reasons |-> Keys,
   commands |-> Commands, plan |-> [steps |-> Steps, contexts |-> PlanContexts]]

(***************************************************************************)
(* The slips.                                                              *)
(***************************************************************************)
Key(e, from, to) == IF e.maps_to = from THEN [e EXCEPT !.maps_to = to, !.reason = to] ELSE e

Slips[s \in {CliYaml}] ==
  LET top == s.commands["top"]
      WithTop(c) == [s EXCEPT !.commands["top"] = c]
      WithExamples(xs) == WithTop([top EXCEPT !.examples = xs])
      WithStep(step, rank, param) == [s EXCEPT !.plan.steps = (step :> Step(rank, param)) @@ @]
      WithContext(c, always, selects) ==
        [s EXCEPT !.plan.contexts[c].always = always, !.plan.contexts[c].selects = selects]
      Without(id) == SelectSeq(top.examples, LAMBDA e : e.id # id)
  IN
  [shipped      |-> s,
   \* An error key is renamed, everywhere.
   renamed_key  |->
     LET old == "top_level_prune_force"
         new == "top_level_force_prune"
         keys == (DOMAIN s.errors \ {old}) \cup {new} IN
       [WithTop([top EXCEPT
          !.guards = [i \in DOMAIN @ |-> IF @[i].key = old THEN [@[i] EXCEPT !.key = new] ELSE @[i]],
          !.examples = [i \in DOMAIN @ |-> Key(@[i], old, new)]])
        EXCEPT !.errors = [k \in keys |-> k], !.reasons = keys],
   \* `xtgeoip -p` is made valid and its guard removed.
   prune_alone  |->
     [WithTop([top EXCEPT !.guards = Tail(@),
                          !.examples = Without("TL-005") \o <<Does("TL-005", {"P"}, NoSteps)>>])
      EXCEPT !.errors = [k \in DOMAIN @ \ {"top_level_prune_no_target"} |-> k]],
   version      |-> [s EXCEPT !.current = FALSE],
   unused_error |-> [s EXCEPT !.errors = ("spare" :> "spare") @@ @],
   no_guard     |-> WithTop([top EXCEPT !.guards = Tail(@)]),
   reordered    |-> WithTop([top EXCEPT !.guards = Reverse(@)]),
   no_example   |-> [WithExamples(Without("TL-011")) EXCEPT !.coverage = FALSE],
   same_rank    |-> WithStep("prune_csv", 40, None),
   swapped      |-> [s EXCEPT !.plan.steps["clean"].rank = 25],
   no_mode      |-> [WithContext("run", <<"fetch", "build">>, [B |-> "backup"])
                      EXCEPT !.plan.contexts["run"].mode = None],
   local_run    |-> [s EXCEPT !.plan.contexts["run"].mode = "local"],
   new_step     |-> [WithStep("report", 55, None)
                      EXCEPT !.plan.contexts["run"].always = @ \o <<"report">>],
   build_early  |-> WithStep("prune_csv", 70, None),
   no_letter    |-> WithContext("fetch", <<"fetch">>, [P |-> "prune_csv", B |-> "backup"]),
   named_twice  |-> WithContext("build", <<"clean", "fetch", "build">>,
                      s.plan.contexts["build"].selects),
   on_request   |-> WithContext("run", <<"fetch">>,
                      (("L" :> "build") @@ s.plan.contexts["run"].selects)),
   no_param     |-> WithStep("backup", 10, None)]

Texts == Slips[CliYaml]

Manpages ==
  [shipped |-> [options |-> {"B", "C", "-h", "config"}, commands |-> {"build", "conf", "fetch", "run"}],
   typo    |-> [options |-> {"legcy"}, commands |-> {"build", "conf", "fetch", "run"}]]

Row == {"source", "producer", "transform", "dest", "mode"}
InstallYaml ==
  [current |-> TRUE, files |-> {Row}, licenses |-> {{"source", "producer"}},
   directories |-> {{"dest", "mode"}}]
InstallSets ==
  [shipped |-> InstallYaml, no_license |-> [InstallYaml EXCEPT !.licenses = {}]]

Committed == [spec |-> "shipped", template |-> "shipped", install |-> "shipped"]

\* How the runner is called: whole with and without --rebuild, the refused
\* cases, one case, and a case there is not.
Called(failed, rebuild, keep, only) ==
  [failed |-> failed, rebuild |-> rebuild, keep |-> keep, only |-> only]

WaysToCall == {
  Called(FALSE, TRUE, FALSE, None), Called(FALSE, FALSE, TRUE, None),
  Called(TRUE, FALSE, FALSE, None), Called(FALSE, FALSE, FALSE, "R-001"),
  Called(FALSE, FALSE, FALSE, "X-001") }

\* cli.yaml says what the generated tables, as Plans has them, say.
ASSUME TablesAgree ==
  /\ \A c \in Contexts :
       IF c = "fetch" THEN ToSet(Lowered(Commands[c])) = ToSet(Guards(c))
                      ELSE Lowered(Commands[c]) = Guards(c)
  /\ \A a, b \in Ops : (Steps[a].rank < Steps[b].rank) = (Rank[a] < Rank[b])
  /\ \A c \in Contexts, flags \in SUBSET Flags :
       Accepted(c, flags) => ToSet(Emitted(CliYaml, ArmOf(c, flags), flags)) = Plan(c, flags)

\* The cases of cli.yaml as it is are as the theorem about RebuildKeepsGreen
\* asks, each by itself.
ASSUME ShippedCasesStand == CasesStand(Shipped.spec)
=============================================================================
