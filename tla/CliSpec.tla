------------------------------- MODULE CliSpec -------------------------------
(***************************************************************************)
(* docgen, as operators: what docs/spec/cli.yaml may say (validate_spec,   *)
(* validate_examples, validate_rules, validate_plan), what the other two   *)
(* inputs may say (validate_manpage_template, validate_install), the       *)
(* tables that are generated from it (cli_rules.rs, plan.rs,               *)
(* testcases.yaml), and what a program built from them answers.            *)
(*                                                                         *)
(* A specification is a record: flags, options, errors (error_cases, each  *)
(* with its maps_to), unique and coverage (proof), reasons, commands and   *)
(* plan.  The contexts are named as in Plans, conf being one more.         *)
(***************************************************************************)
EXTENDS Plans, FiniteSets, SequencesExt

\* A field the text leaves out.
None == "none"
NoSteps == <<None>>

ExamplesOf(s, c) == IF c \in DOMAIN s.commands THEN s.commands[c].examples ELSE <<>>

\* top_level first, then the commands by name.
Examples(s) ==
  ExamplesOf(s, "top") \o ExamplesOf(s, "build") \o ExamplesOf(s, "conf")
    \o ExamplesOf(s, "fetch") \o ExamplesOf(s, "run")

Invalid(s) == SelectSeq(Examples(s), LAMBDA e : ~e.valid)

(***************************************************************************)
(* validate_spec, validate_examples.                                       *)
(***************************************************************************)
ValidSpec(s) ==
  LET used == {e.maps_to : e \in ToSet(Invalid(s))} IN
    /\ \A e \in ToSet(Examples(s)) : e.reason # None => e.reason \in s.reasons
    /\ used \subseteq DOMAIN s.errors
    /\ s.unique => Cardinality(used) = Len(Invalid(s))
    /\ s.coverage => \A k \in DOMAIN s.errors : s.errors[k] \in used

ValidExamples(s) ==
  \A c \in DOMAIN s.commands : \A e \in ToSet(s.commands[c].examples) :
    /\ e.outcome = e.valid
    /\ (e.reason = None) = e.valid
    /\ (e.maps_to = None) = e.valid

(***************************************************************************)
(* The guards of a context, and validate_rules, which tries them on the    *)
(* examples.                                                               *)
(***************************************************************************)
Lowered(cmd) ==
  [i \in DOMAIN cmd.reject |-> Guard({cmd.reject[i].flag}, {}, cmd.reject[i].error)] \o cmd.guards

Refusal(table, flags) ==
  LET on == {i \in DOMAIN table : Fires(table[i], flags)} IN
    IF on = {} THEN None ELSE table[Min(on)].key

\* The bare program shows its help, with an error.
Expected(c, table, flags) ==
  IF c = "top" /\ flags = {} /\ Refusal(table, flags) = None
    THEN "top_level_no_args" ELSE Refusal(table, flags)

\* Written with single short flags of the specification only.
InModel(s, e) == e.plain /\ e.flags \subseteq s.flags

\* Faulty: that an example is refused is enough, whatever the key.
AgreesInKind(s, c, e) ==
  InModel(s, e) => e.valid = (Expected(c, Lowered(s.commands[c]), e.flags) = None)

Agrees(s, c, e) ==
  InModel(s, e) => Expected(c, Lowered(s.commands[c]), e.flags) = e.maps_to

CheckContext(s, c) ==
  LET cmd == s.commands[c]
      rejected == {r.flag : r \in ToSet(cmd.reject)} IN
    /\ cmd.allowed \subseteq s.flags
    /\ Cardinality(rejected) = Len(cmd.reject)
    /\ rejected = s.flags \ cmd.allowed
    /\ {g.key : g \in ToSet(Lowered(cmd))} \subseteq DOMAIN s.errors
    /\ \A g \in ToSet(cmd.guards) : g.require \cup g.forbid \subseteq cmd.allowed
    /\ \A e \in ToSet(cmd.examples) : Agrees(s, c, e)

Guarded(s) == {c \in DOMAIN s.commands : s.commands[c].kind = "flags"}

ValidRules(s) == \A c \in Guarded(s) : CheckContext(s, c)

(***************************************************************************)
(* validate_plan.                                                          *)
(***************************************************************************)
Runs(x) == ToSet(x.always) \cup Range(x.selects)

ValidPlan(s) ==
  LET steps == s.plan.steps
      contexts == s.plan.contexts IN
    /\ \A a, b \in DOMAIN steps : steps[a].rank = steps[b].rank => a = b
    /\ \A a \in DOMAIN steps : steps[a].why
    /\ \A c \in DOMAIN contexts :
         LET x == contexts[c] IN
           /\ DOMAIN x.selects \subseteq s.flags
           /\ "build" \in Runs(x) => "fetch" \in Runs(x)
           /\ x.mode \in IF "fetch" \in Runs(x) THEN {"remote", "local"} ELSE {None}
    /\ UNION {Runs(contexts[c]) : c \in DOMAIN contexts} = DOMAIN steps
    /\ \A e \in ToSet(Examples(s)) :
         e.steps # NoSteps => e.valid /\ ToSet(e.steps) \subseteq DOMAIN steps

Valid(s) ==
  s.current /\ ValidSpec(s) /\ ValidExamples(s) /\ ValidRules(s) /\ ValidPlan(s)

(***************************************************************************)
(* validate_manpage_template: the options and commands a template names.   *)
(* validate_install: each row by the fields of it a recipe can act on.     *)
(***************************************************************************)
Known(s) == s.flags \cup s.options \cup {"-h", "-V"}

ValidTemplate(s, t) == t.options \subseteq Known(s) /\ t.commands = DOMAIN s.commands \ {"top"}

ValidInstall(i) ==
  /\ i.current /\ i.files # {} /\ i.licenses # {}
  /\ \A r \in i.files : {"source", "producer", "transform", "dest", "mode"} \subseteq r
  /\ \A r \in i.licenses : {"source", "producer"} \subseteq r
  /\ \A r \in i.directories : {"dest", "mode"} \subseteq r

(***************************************************************************)
(* generate_cli_rules_rs: it fails for a guard no example gives a reason.  *)
(***************************************************************************)
RulesEmit(s) ==
  \A c \in Guarded(s) : \A g \in ToSet(Lowered(s.commands[c])) :
    \E e \in ToSet(Invalid(s)) : e.maps_to = g.key /\ e.reason # None

(***************************************************************************)
(* generate_plan_rs: an arm for each variant of Action, with the letters   *)
(* it has a value for (ACTION_BINDINGS): true, false, or the user's.       *)
(***************************************************************************)
Arm(ctx, yes, no, free) == [ctx |-> ctx, yes |-> yes, no |-> no, free |-> free]

Arms == {
  Arm("top", {"B"}, {}, {"C", "P", "F"}),
  Arm("top", {"C"}, {"B", "P"}, {"F"}),
  Arm("fetch", {}, {}, {"P"}),
  Arm("run", {}, {}, {"B", "C", "P", "F", "L"}),
  Arm("build", {}, {}, {"B", "C", "P", "F", "L"}),
  Arm("conf", {}, {}, {}) }

Bound(a) == a.yes \cup a.no \cup a.free

\* What the arm's flags are when the user gives some of its letters.
Given(a, flags) == a.yes \cup (flags \cap a.free)

RankOf(s, step) == s.plan.steps[step].rank

\* The members of a finite set in their order: the k-th has k - 1 before it.
InOrder(before) ==
  [k \in 1 .. Cardinality(DOMAIN before) |->
     CHOOSE a \in DOMAIN before : Cardinality(before[a]) = k - 1]

\* Elements of q, in the order of their positions.
Picked(q, before) == LET at == InOrder(before) IN [k \in DOMAIN at |-> q[at[k]]]

\* Those of q that are in S.
Filtered(q, S) ==
  LET kept == {i \in DOMAIN q : q[i] \in S} IN
    Picked(q, [i \in kept |-> {j \in kept : j < i}])

\* The steps of a context, each with what it is under: no letter, or one.  A
\* step may be there more than once.
Mentions(x) ==
  [i \in DOMAIN x.always |-> <<x.always[i], {}>>]
    \o SetToSeq({<<x.selects[l], {l}>> : l \in DOMAIN x.selects})

\* Sorted by rank, those of one rank as they were.
Selected(s, c) ==
  LET listed == Mentions(s.plan.contexts[c])
      rank == [i \in DOMAIN listed |-> RankOf(s, listed[i][1])] IN
    Picked(listed, [i \in DOMAIN listed |->
      {j \in DOMAIN listed : rank[j] < rank[i] \/ (rank[j] = rank[i] /\ j < i)}])

Between(s, c, low, high) ==
  LET all == Selected(s, c) IN
    Filtered(all, {m \in ToSet(all) : low < RankOf(s, m[1]) /\ RankOf(s, m[1]) < high})

Pre(s, c) == Between(s, c, -1, RankOf(s, "fetch"))
Mid(s, c) == Between(s, c, RankOf(s, "fetch"), RankOf(s, "build"))

Builds(s, c) == "build" \in Runs(s.plan.contexts[c])

HasVariant(s, step) ==
  step \in Ops \ {"fetch", "build"} /\ s.plan.steps[step].param \in {None, "backup_mode"}

\* Faulty: nothing is said of a step the two windows leave out.
ArmEmitsShort(s, a) ==
  /\ a.ctx \in DOMAIN s.plan.contexts
  /\ DOMAIN s.plan.contexts[a.ctx].selects \subseteq Bound(a)
  /\ \A m \in ToSet(IF Builds(s, a.ctx) THEN Pre(s, a.ctx) \o Mid(s, a.ctx)
                      ELSE Selected(s, a.ctx)) :
       m[1] = "fetch" \/ HasVariant(s, m[1])

ArmEmits(s, a) ==
  /\ a.ctx \in DOMAIN s.plan.contexts
  /\ DOMAIN s.plan.contexts[a.ctx].selects \subseteq Bound(a)
  /\ IF Builds(s, a.ctx)
       THEN LET listed == Pre(s, a.ctx) \o Mid(s, a.ctx) IN
              /\ Len(listed) + 2 = Len(Selected(s, a.ctx))
              /\ \A m \in ToSet(listed) : HasVariant(s, m[1])
       ELSE \A m \in ToSet(Selected(s, a.ctx)) : m[1] = "fetch" \/ HasVariant(s, m[1])

PlanEmits(s) == {"fetch", "build"} \subseteq DOMAIN s.plan.steps /\ \A a \in Arms : ArmEmits(s, a)

\* The plan an arm of the generated code makes: a build makes its fetch and
\* itself unconditional.
Taken(listed, flags) == Filtered(listed, {m \in ToSet(listed) : m[2] \subseteq flags})

Emitted(s, a, flags) ==
  LET given == Given(a, flags)
      steps == IF Builds(s, a.ctx)
                 THEN Taken(Pre(s, a.ctx), given) \o << <<"fetch", {}>> >>
                        \o Taken(Mid(s, a.ctx), given) \o << <<"build", {}>> >>
                 ELSE Taken(Selected(s, a.ctx), given)
  IN [i \in DOMAIN steps |-> steps[i][1]]

(***************************************************************************)
(* The rest of the crate names the five flags, the four tables and the     *)
(* variants of Step, which have a mode or have not; a u8 has eight bits.   *)
(***************************************************************************)
RulesFit(s) == Flags \subseteq s.flags /\ Cardinality(s.flags) <= 8 /\ Contexts \subseteq Guarded(s)

PlanFits(s) ==
  \A step \in {"backup", "clean"} \cap DOMAIN s.plan.steps : s.plan.steps[step].param # None

\* The messages the tables of one specification take from the text of another.
MessagesFit(rules, text) ==
  \A c \in Guarded(rules) : \A g \in ToSet(Lowered(rules.commands[c])) :
    (CHOOSE e \in ToSet(Invalid(rules)) : e.maps_to = g.key).reason \in text.reasons

(***************************************************************************)
(* What a program with the tables of s says to an invocation: the error    *)
(* key, or None when it goes on to a plan.                                 *)
(***************************************************************************)
Answer(s, c, flags) ==
  CASE c = "conf" -> IF flags = {} THEN "conf_missing_flag" ELSE None
    [] c \notin {"conf", "top"} -> Refusal(Lowered(s.commands[c]), flags)
    [] c = "top" ->
         IF flags \cap {"B", "C"} = {} /\ flags # {} /\ Refusal(Lowered(s.commands[c]), flags) = None
           THEN "unsupported" ELSE Expected(c, Lowered(s.commands[c]), flags)

\* The arm of the planner an accepted invocation comes to.
ArmOf(c, flags) ==
  CHOOSE a \in Arms : a.ctx = c /\ (c = "top" => a.yes = IF "B" \in flags THEN {"B"} ELSE {"C"})

(***************************************************************************)
(* generate_testcases_yaml: the cases of the test runner.                  *)
(***************************************************************************)
Case(c, e) ==
  [id |-> e.id, ctx |-> c, flags |-> e.flags, key |-> IF e.valid THEN "p" ELSE "f",
   maps_to |-> e.maps_to, rebuild |-> e.rebuild, plain |-> e.plain]

CasesOf(s, c) == [j \in DOMAIN ExamplesOf(s, c) |-> Case(c, ExamplesOf(s, c)[j])]

Testcases(s) ==
  CasesOf(s, "top") \o CasesOf(s, "build") \o CasesOf(s, "conf")
    \o CasesOf(s, "fetch") \o CasesOf(s, "run")
=============================================================================
