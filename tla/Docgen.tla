-------------------------------- MODULE Docgen --------------------------------
(***************************************************************************)
(* The generated sources and how they come about: authors edit the three   *)
(* texts of docs/spec, xtgeoip-docgen reads them one after the other,      *)
(* checks them, renders every output and writes the files; cargo builds    *)
(* the program from what lies in src/generated.                            *)
(*                                                                         *)
(* A text is named, and the constants say what is in it.  A file is named  *)
(* by the reading (the three texts) it was rendered from.                  *)
(***************************************************************************)
EXTENDS CliSpec

CONSTANTS
  Specs,      \* docs/spec/cli.yaml: what each text of it says
  Templates,  \* docs/spec/manpage-template.toml
  Installs,   \* docs/spec/install.yaml
  Shipped,    \* the reading the repository is committed with
  MaxEdits,   \* how many edits the authors make
  Cut         \* a file a write of which was cut short

Readings ==
  [spec : DOMAIN Specs, template : DOMAIN Templates, install : DOMAIN Installs]

\* The files, in the order they are written (usage.md, tldr.md and the man
\* page are one, the completions are left out).
Outputs ==
  <<"docs", "error_text", "cli_matrix", "cli_rules", "plan", "testcases", "manifest">>

Files == ToSet(Outputs)

Sources == {"error_text", "cli_matrix", "cli_rules", "plan"}

\* What a plan is read into: ranks are numbers, the steps a context always
\* runs a list, those it selects a map of letters.
PlanRead(plan) ==
  /\ \A a \in DOMAIN plan.steps : plan.steps[a].rank \in Nat
  /\ \A c \in DOMAIN plan.contexts :
       LET x == plan.contexts[c] IN
         x.always \in Seq(ToSet(x.always)) /\ IsFiniteSet(DOMAIN x.selects)

ASSUME DocgenAssumption ==
  /\ \A t \in DOMAIN Specs : \A c \in DOMAIN Specs[t].commands :
       LET examples == Specs[t].commands[c].examples IN examples \in Seq(ToSet(examples))
  /\ \A t \in DOMAIN Specs : PlanRead(Specs[t].plan)
  /\ Shipped \in Readings
  /\ MaxEdits \in Nat
  /\ Cut \notin Readings

VARIABLES
  text,     \* what the authors' three files say now
  edits,    \* how many edits they have made
  dg,       \* docgen: where it is, the file it writes, the texts it has read
  last,     \* how its last run ended
  files,    \* what each generated file was rendered from
  found,    \* what the files were when it, or a run that refused, started
  program   \* the rules and the plan in target/release/xtgeoip

docvars == <<text, edits, dg, last, files, found, program>>

Stages == {"idle", "spec", "template", "install", "render", "write"}

DocTypeOK ==
  /\ text \in Readings
  /\ edits \in 0 .. MaxEdits
  /\ dg \in [at : Stages, n : 1 .. Len(Outputs), read : Readings]
  /\ last \in {"none", "done", "refused", "failed", "killed"}
  /\ files \in [Files -> Readings \cup {Cut}]
  /\ found \in [Files -> Readings \cup {Cut}]
  /\ program \in [rules : DOMAIN Specs, plan : DOMAIN Specs]

Fresh(r) == [f \in Files |-> r]

NotRunning == [at |-> "idle", n |-> 1, read |-> Shipped]

DocInit ==
  /\ text = Shipped
  /\ edits = 0
  /\ dg = NotRunning
  /\ last = "none"
  /\ files = Fresh(Shipped)
  /\ found = files
  /\ program = [rules |-> Shipped.spec, plan |-> Shipped.spec]

(***************************************************************************)
(* The authors, who may be at work while docgen is, and git.               *)
(***************************************************************************)
Edit ==
  /\ edits < MaxEdits
  /\ edits' = edits + 1
  /\ text' \in Readings \ {text}
  /\ Cardinality({k \in DOMAIN text : text'[k] # text[k]}) = 1
  /\ UNCHANGED <<dg, last, files, found, program>>

\* Something else has been done since docgen's last run.
Past == last' = "none" /\ dg' = NotRunning

\* The generated files are put back to what the repository has.
Restore ==
  /\ dg.at = "idle"
  /\ files' = Fresh(Shipped) /\ found' = files'
  /\ Past
  /\ UNCHANGED <<text, edits, program>>

(***************************************************************************)
(* Cargo.  docgen itself is built from the sources it has generated.       *)
(***************************************************************************)
Sound == {t \in DOMAIN Specs : Valid(Specs[t])}

\* The texts every emitter has an output for.
Emitting == {t \in Sound : RulesEmit(Specs[t]) /\ PlanEmits(Specs[t])}

\* Of the texts a tree can hold: rules, messages and plan.
Compilable ==
  {x \in Emitting \X Emitting \X Emitting :
     RulesFit(Specs[x[1]]) /\ MessagesFit(Specs[x[1]], Specs[x[2]]) /\ PlanFits(Specs[x[3]])}

Compiles ==
  /\ \A f \in Sources : files[f] # Cut
  /\ <<files["cli_rules"].spec, files["error_text"].spec, files["plan"].spec>> \in Compilable

Build ==
  /\ dg.at = "idle" /\ Compiles
  /\ program' = [rules |-> files["cli_rules"].spec, plan |-> files["plan"].spec]
  /\ Past /\ found' = files
  /\ UNCHANGED <<text, edits, files>>

\* What is committed has come out of docgen, and compiles.
ASSUME ShippedAssumption == Shipped.spec \in Emitting

(***************************************************************************)
(* docgen.                                                                 *)
(***************************************************************************)
Start ==
  /\ dg.at = "idle" /\ Compiles
  /\ dg' = [NotRunning EXCEPT !.at = "spec"]
  /\ found' = files
  /\ last' = "none"
  /\ UNCHANGED <<text, edits, files, program>>

\* docgen goes on to at, or ends refusing what it has read.
Unless(ok, at, read) ==
  IF ok THEN dg' = [dg EXCEPT !.at = at, !.read = read] /\ UNCHANGED last
        ELSE dg' = NotRunning /\ last' = "refused"

\* One of the three texts is read and checked.
Reads(at, field, ok, next) ==
  /\ dg.at = at
  /\ Unless(ok, next, [dg.read EXCEPT ![field] = text[field]])
  /\ UNCHANGED <<text, edits, files, found, program>>

ReadSpec == Reads("spec", "spec", text.spec \in Sound, "template")

ReadTemplate ==
  Reads("template", "template",
        ValidTemplate(Specs[dg.read.spec], Templates[text.template]), "install")

ReadInstall == Reads("install", "install", ValidInstall(Installs[text.install]), "render")

\* Faulty: each file is written as soon as it is rendered.
RenderEach ==
  /\ dg.at = "render"
  /\ Unless(dg.read.spec \in Emitting, "write", dg.read)
  /\ files' = [f \in Files |->
       IF f \in {"docs", "error_text", "cli_matrix"} THEN dg.read ELSE files[f]]
  /\ UNCHANGED <<text, edits, found, program>>

\* Every output is rendered before any is written.
Render ==
  /\ dg.at = "render"
  /\ Unless(dg.read.spec \in Emitting, "write", dg.read)
  /\ UNCHANGED <<text, edits, files, found, program>>

Write ==
  /\ dg.at = "write"
  /\ files' = [files EXCEPT ![Outputs[dg.n]] = dg.read]
  /\ IF dg.n < Len(Outputs)
       THEN dg' = [dg EXCEPT !.n = dg.n + 1] /\ UNCHANGED <<last, found>>
       ELSE dg' = [dg EXCEPT !.at = "idle", !.n = 1] /\ last' = "done" /\ found' = files'
  /\ UNCHANGED <<text, edits, program>>

\* An error it does not make itself, or a kill.
Stops ==
  /\ \E w \in {"failed", "killed"} : last' = w
  /\ dg' = NotRunning
  /\ found' = files'
  /\ UNCHANGED <<text, edits, program>>

\* In the middle of a write: the file has not been opened, or it has been
\* emptied and not filled.
StopsAtWrite ==
  /\ dg.at = "write"
  /\ \E c \in {files[Outputs[dg.n]], Cut} : files' = [files EXCEPT ![Outputs[dg.n]] = c]
  /\ Stops

\* Before it: a text cannot be read, or the directories cannot be made.
StopsBefore ==
  /\ dg.at \in {"spec", "template", "install", "render"}
  /\ UNCHANGED files
  /\ Stops

DocgenStep == ReadSpec \/ ReadTemplate \/ ReadInstall \/ Render \/ Write

DocNext == Edit \/ Restore \/ Build \/ Start \/ DocgenStep \/ StopsAtWrite \/ StopsBefore

(***************************************************************************)
(* Properties.                                                             *)
(***************************************************************************)
\* A run that refuses what it has read leaves the tree as it was, and one
\* that is done leaves every file of the one reading, whatever was edited in
\* the meantime (render_outputs).
AllOrNothing ==
  /\ last = "refused" => files = found
  /\ last = "done" => files = Fresh(dg.read)

\* A top-level example without -b and -c is no plan of the program's, though
\* docgen lets it be valid.
Targetless(c, e) == c = "top" /\ e.valid /\ e.flags \cap {"B", "C"} = {}

Answered(s) ==
  \A c \in Contexts \cap Guarded(s) : \A e \in ToSet(s.commands[c].examples) :
    InModel(s, e) /\ ~Targetless(c, e) => Answer(s, c, e.flags) = e.maps_to

Answering == {t \in Emitting : Answered(Specs[t])}

\* Whatever was edited, the program that was built says to each example of
\* the text its rules come from what the text says: first match by first
\* match, through lower_guards, the tables and normalize.
RulesGiveExamples == program.rules \in Answering

\* A context may name a step more than once, and one that selects its build
\* or its fetch by a letter runs it unasked.
NamedOnce(x) ==
  /\ Cardinality(Runs(x)) = Len(x.always) + Cardinality(DOMAIN x.selects)
  /\ "build" \in Runs(x) => {"fetch", "build"} \subseteq ToSet(x.always)

Followed(s) ==
  \A a \in Arms : \A flags \in SUBSET a.free :
    LET x == s.plan.contexts[a.ctx]
        plan == Emitted(s, a, flags)
        letters == DOMAIN x.selects \cap Given(a, flags) IN
      NamedOnce(x) =>
        /\ ToSet(plan) = ToSet(x.always) \cup {x.selects[l] : l \in letters}
        /\ \A i, j \in DOMAIN plan : i < j => RankOf(s, plan[i]) < RankOf(s, plan[j])

Following == {t \in Emitting : Followed(Specs[t])}

\* The plans of the program that was built are the steps its text has for
\* the context and the flags, all of them, each once, in rank order.
PlanFollowsSpec == program.plan \in Following

(***************************************************************************)
(* The inductive invariant.                                                *)
(***************************************************************************)
DocInv ==
  /\ DocTypeOK
  /\ AllOrNothing
  /\ \A f \in Files : files[f] # Cut => files[f].spec \in Emitting
  /\ {program.rules, program.plan} \subseteq Emitting
  /\ dg.at \in {"template", "install", "render"} => dg.read.spec \in Sound
  /\ dg.at = "write" =>
       dg.read.spec \in Emitting /\ \A i \in 1 .. dg.n - 1 : files[Outputs[i]] = dg.read
  /\ dg.at \in {"spec", "template", "install", "render"} => files = found
  /\ dg.at # "idle" => last = "none"
  /\ dg.at # "write" => dg.n = 1
=============================================================================
