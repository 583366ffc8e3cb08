------------------------------- MODULE TestRun -------------------------------
(***************************************************************************)
(* xtgeoip-tests: a run of the generated cases against the built program,  *)
(* in a sandbox of its own and with a stub for the server.  It begins on a *)
(* tree docgen has finished, whatever program was built last, and nothing  *)
(* is edited, generated or built until it has ended.                       *)
(*                                                                         *)
(* A case is spawned through sudo; what it does to the output directory    *)
(* and to the stub is done when it ends.  Of a database only its being     *)
(* there is kept: a backup and a clean fail without one.                   *)
(***************************************************************************)
EXTENDS Docgen

CONSTANT Calls  \* how the runner is called: [failed, rebuild, keep, only]

ASSUME CallsAssumption ==
  \A c \in Calls : {c.failed, c.rebuild, c.keep} \subseteq BOOLEAN

VARIABLES
  run,        \* the runner: where it is, its arguments, cases and tally
  box,        \* the sandbox, the stub's process and the case's
  port,       \* who listens on the port that was reserved
  left,       \* what a run that has ended leaves its sandbox for
  disturbed   \* a case has met with something that is not of its corpus

runvars == <<run, box, port, left, disturbed>>
vars == <<docvars, runvars>>

\* Where the runner is when it has a sandbox, and a stub, to give up.
Working == {"case", "running", "late", "rebuild", "rebuilding", "report"}
Places == Working \cup
  {"off", "load", "port", "sandbox", "seed", "stub", "wait", "drop_stub", "drop_sandbox", "done"}

Idle ==
  [at |-> "off", args |-> [failed |-> FALSE, rebuild |-> FALSE, keep |-> FALSE, only |-> None],
   corpus |-> Shipped.spec, next |-> 1, bad |-> FALSE, remote |-> FALSE, exit |-> None]

NoBox == [root |-> FALSE, db |-> FALSE, stub |-> "none", served |-> FALSE, child |-> FALSE]

RunTypeOK ==
  /\ run \in [at : Places, args : Calls \cup {Idle.args}, corpus : DOMAIN Specs, next : Nat \ {0},
              bad : BOOLEAN, remote : BOOLEAN, exit : {None, "ok", "error"}]
  /\ box \in [root : BOOLEAN, db : BOOLEAN, stub : {"none", "up", "listening", "exited"},
              served : BOOLEAN, child : BOOLEAN]
  /\ port \in {"free", "stub", "stranger"}
  /\ left \in {"nothing", "unseeded", "unremoved", "killed"}
  /\ disturbed \in BOOLEAN

RunInit ==
  run = Idle /\ box = NoBox /\ port = "free" /\ left = "nothing" /\ disturbed = FALSE

Goes(p) == run' = [run EXCEPT !.at = p]

Fails(p) == run' = [run EXCEPT !.at = p, !.exit = "error"]

(***************************************************************************)
(* The cases, and what the program that was built says to them.            *)
(***************************************************************************)
Corpora == [t \in DOMAIN Specs |-> Testcases(Specs[t])]

Corpus == Corpora[run.corpus]

Current == Corpus[run.next]

\* conf -e and conf -c would wait for somebody to type.
Interactive(tc) == tc.ctx = "conf" /\ tc.flags \cap {"E", "C"} # {}

Chosen(args, tc) ==
  /\ args.only \in {None, tc.id}
  /\ args.failed => tc.key = "f"
  /\ ~Interactive(tc)

IsRemote(tc) == tc.key = "p" /\ tc.ctx \in {"fetch", "run"}

\* What a program with the rules of text t says: -h is not its to refuse.
Reply(t, tc) == IF tc.plain THEN Answer(Specs[t], tc.ctx, tc.flags) ELSE None

Says(tc) == Reply(program.rules, tc)

\* What each program that can be built does for each context and flags.
Planned ==
  [t \in Emitting |-> [c \in Contexts, flags \in SUBSET Flags |->
                         Emitted(Specs[t], ArmOf(c, flags), flags)]]

PlanFor(t, ctx, flags) == Planned[t][ctx, flags \cap Flags]

PlanOf(rules, plan, tc) ==
  IF tc.plain /\ tc.ctx # "conf" /\ Reply(rules, tc) = None
    THEN PlanFor(plan, tc.ctx, tc.flags) ELSE <<>>

CasePlan(tc) == PlanOf(program.rules, program.plan, tc)

\* What the program is told to build the database again.
Rebuild == [ctx |-> "build", flags |-> {}, plain |-> TRUE]

\* Whether there is a database before the i-th step.
Stands(plan, db, i) ==
  LET upto == {j \in 1 .. i - 1 : plan[j] \in {"clean", "build"}} IN
    IF upto = {} THEN db ELSE plan[Max(upto)] = "build"

\* The first n steps find what they need.
Reaches(plan, db, n) ==
  \A i \in 1 .. n : plan[i] \in {"backup", "clean"} => Stands(plan, db, i)

Works(plan, db) == Reaches(plan, db, Len(plan))

\* A plan that fails of itself has found no database.
After(plan, db) == Works(plan, db) /\ Stands(plan, db, Len(plan) + 1)

\* The server is asked by a plan that gets as far as its fetch.
Asks(t, ctx, plan, db) ==
  /\ \E i \in DOMAIN plan : plan[i] = "fetch" /\ Reaches(plan, db, i - 1)
  /\ Specs[t].plan.contexts[ctx].mode = "remote"

AsksStub(ctx, plan, db) == Asks(program.plan, ctx, plan, db)

\* Faulty: a failure is a failure, whatever the key it was to name.
JudgeExit(tc, ok, key) == ok = (tc.key = "p")

Judge(tc, ok, key) == ok = (tc.key = "p") /\ (tc.maps_to # None => key = tc.maps_to)

(***************************************************************************)
(* Before the cases.                                                       *)
(***************************************************************************)
Call ==
  /\ run.at = "off" /\ dg.at = "idle" /\ files = Fresh(text)
  /\ \E c \in Calls : run' = [run EXCEPT !.at = "load", !.args = c]
  /\ Past
  /\ UNCHANGED <<text, edits, files, found, program, box, port, left, disturbed>>

\* An argument is not known, a precondition is not met, the cases cannot be
\* read, no port is to be had, or there is no place for a sandbox.
Unready ==
  /\ run.at \in {"load", "port", "sandbox"}
  /\ Fails("done")
  /\ UNCHANGED <<docvars, box, port, left, disturbed>>

Load ==
  /\ run.at = "load"
  /\ LET corpus == files["testcases"].spec IN
       run' = IF Corpora[corpus] = <<>>
                THEN [run EXCEPT !.at = "done", !.corpus = corpus, !.exit = "ok"]
                ELSE [run EXCEPT !.at = "port", !.corpus = corpus]
  /\ UNCHANGED <<docvars, box, port, left, disturbed>>

\* The port is bound and let go at once.
ReservePort ==
  /\ run.at = "port"
  /\ Goes("sandbox")
  /\ UNCHANGED <<docvars, box, port, left, disturbed>>

\* keep(): from here to its end nothing removes what create_sandbox has made.
MakeRoot ==
  /\ run.at = "sandbox"
  /\ Goes("seed")
  /\ box' = [box EXCEPT !.root = TRUE]
  /\ UNCHANGED <<docvars, port, left, disturbed>>

SeedFails ==
  /\ run.at = "seed"
  /\ Fails("done")
  /\ left' = "unseeded"
  /\ UNCHANGED <<docvars, box, port, disturbed>>

\* The installed database is a whole one.
Seed ==
  /\ run.at = "seed"
  /\ Goes("stub")
  /\ box' = [box EXCEPT !.db = TRUE]
  /\ UNCHANGED <<docvars, port, left, disturbed>>

\* No certificates, no archive to serve, or openssl does not start.
StubFails ==
  /\ run.at = "stub"
  /\ Fails("drop_sandbox")
  /\ UNCHANGED <<docvars, box, port, left, disturbed>>

SpawnStub ==
  /\ run.at = "stub"
  /\ Goes("wait")
  /\ box' = [box EXCEPT !.stub = "up"]
  /\ UNCHANGED <<docvars, port, left, disturbed>>

\* Faulty: that somebody answers on the port is enough.
AnybodyListens ==
  /\ run.at = "wait" /\ port # "free"
  /\ Goes("case")
  /\ UNCHANGED <<docvars, box, port, left, disturbed>>

\* The stub has said ACCEPT.
StubListens ==
  /\ run.at = "wait" /\ box.stub = "listening"
  /\ Goes("case")
  /\ UNCHANGED <<docvars, box, port, left, disturbed>>

\* Faulty: nothing is done about a stub that neither listens nor exits.
WaitEndsByExit ==
  /\ run.at = "wait" /\ box.stub = "exited"
  /\ Fails("drop_stub")
  /\ UNCHANGED <<docvars, box, port, left, disturbed>>

\* It has exited, or five seconds have gone by.
WaitEnds ==
  /\ run.at = "wait" /\ box.stub # "listening"
  /\ Fails("drop_stub")
  /\ UNCHANGED <<docvars, box, port, left, disturbed>>

(***************************************************************************)
(* The cases, one after another.                                           *)
(***************************************************************************)
Skip ==
  /\ run.at = "case" /\ run.next <= Len(Corpus) /\ ~Chosen(run.args, Current)
  /\ run' = [run EXCEPT !.next = @ + 1]
  /\ UNCHANGED <<docvars, box, port, left, disturbed>>

Spawn ==
  /\ run.at = "case" /\ run.next <= Len(Corpus) /\ Chosen(run.args, Current)
  /\ run' = [run EXCEPT !.at = "running", !.remote = @ \/ IsRemote(Current)]
  /\ box' = [box EXCEPT !.child = TRUE]
  /\ UNCHANGED <<docvars, port, left, disturbed>>

SpawnFails ==
  /\ \/ run.at = "case" /\ run.next <= Len(Corpus) /\ Chosen(run.args, Current)
     \/ run.at = "rebuild"
  /\ Fails("drop_stub")
  /\ UNCHANGED <<docvars, box, port, left, disturbed>>

\* Faulty: the database is not built again.
JudgedOnly(ok, key) ==
  run' = [run EXCEPT !.at = "case", !.next = @ + 1, !.bad = @ \/ ~Judge(Current, ok, key)]

\* The case is judged; one that passes may want the database built again.
Judged(ok, key) ==
  LET pass == Judge(Current, ok, key) IN
    run' = IF pass /\ run.args.rebuild /\ ok /\ Current.rebuild
             THEN [run EXCEPT !.at = "rebuild"]
             ELSE [run EXCEPT !.at = "case", !.next = @ + 1, !.bad = @ \/ ~pass]

\* What a program that ends of itself has done.
Acted(ctx, plan) ==
  box' = [box EXCEPT !.child = FALSE, !.db = After(plan, @),
                     !.served = @ \/ AsksStub(ctx, plan, box.db)]

\* The case does what the program's tables say.
CaseEnds ==
  /\ run.at = "running"
  /\ LET key == Says(Current)
         plan == CasePlan(Current) IN
       /\ Judged(key = None /\ Works(plan, box.db), key)
       /\ Acted(Current.ctx, plan)
  /\ UNCHANGED <<docvars, port, left, disturbed>>

\* What an ill-fated program has done by then.
Whatever == \E db, served \in BOOLEAN :
  box' = [box EXCEPT !.child = FALSE, !.db = db, !.served = @ \/ served]

\* It fails at something that is not the tables': the passphrase, the disk.
CaseFails ==
  /\ run.at = "running"
  /\ Judged(FALSE, None) /\ Whatever
  /\ disturbed' = TRUE
  /\ UNCHANGED <<docvars, port, left>>

\* The time is up: sudo is killed, or cannot be.
TimeUp ==
  /\ run.at = "running"
  /\ Goes("late")
  /\ disturbed' = TRUE
  /\ UNCHANGED <<docvars, box, port, left>>

\* Faulty: what the program still has to say is not waited for.
LateCaseLeft ==
  /\ run.at = "late"
  /\ run' = [run EXCEPT !.at = "case", !.next = @ + 1, !.bad = TRUE]
  /\ UNCHANGED <<docvars, box, port, left, disturbed>>

\* The output of the case is read to its end, which is the program's.
LateCaseEnds ==
  /\ run.at = "late"
  /\ run' = [run EXCEPT !.at = "case", !.next = @ + 1, !.bad = TRUE]
  /\ Whatever
  /\ UNCHANGED <<docvars, port, left, disturbed>>

SpawnRebuild ==
  /\ run.at = "rebuild"
  /\ Goes("rebuilding")
  /\ box' = [box EXCEPT !.child = TRUE]
  /\ UNCHANGED <<docvars, port, left, disturbed>>

\* How the rebuild ended is printed, and no more.
RebuildEnds ==
  /\ run.at = "rebuilding"
  /\ run' = [run EXCEPT !.at = "case", !.next = @ + 1]
  /\ \/ Whatever /\ disturbed' = TRUE
     \/ Acted("build", CasePlan(Rebuild)) /\ UNCHANGED disturbed
  /\ UNCHANGED <<docvars, port, left>>

(***************************************************************************)
(* After them.                                                             *)
(***************************************************************************)
AllRun ==
  /\ run.at = "case" /\ run.next > Len(Corpus)
  /\ Goes("report")
  /\ UNCHANGED <<docvars, box, port, left, disturbed>>

Report ==
  /\ run.at = "report"
  /\ run' = [run EXCEPT !.at = "drop_stub",
                        !.exit = IF run.bad \/ (run.remote /\ ~box.served) THEN "error" ELSE "ok"]
  /\ UNCHANGED <<docvars, box, port, left, disturbed>>

DropStub ==
  /\ run.at = "drop_stub"
  /\ Goes("drop_sandbox")
  /\ box' = [box EXCEPT !.stub = "none"]
  /\ port' = IF port = "stub" THEN "free" ELSE port
  /\ UNCHANGED <<docvars, left, disturbed>>

\* The removal, by sudo, may fail.
DropSandbox ==
  /\ run.at = "drop_sandbox"
  /\ Goes("done")
  /\ \/ box' = [box EXCEPT !.root = run.args.keep] /\ UNCHANGED left
     \/ ~run.args.keep /\ left' = "unremoved" /\ UNCHANGED box
  /\ UNCHANGED <<docvars, port, disturbed>>

Kill ==
  /\ run.at \notin {"off", "done"}
  /\ Fails("done")
  /\ left' = "killed"
  /\ UNCHANGED <<docvars, box, port, disturbed>>

\* Another run, which will have a sandbox and a port of its own.
Again ==
  /\ run.at = "done"
  /\ run' = Idle /\ box' = NoBox /\ port' = "free" /\ left' = "nothing" /\ disturbed' = FALSE
  /\ UNCHANGED docvars

(***************************************************************************)
(* openssl s_server, and another program that takes the port.              *)
(***************************************************************************)
StubBinds ==
  /\ box.stub = "up"
  /\ IF port = "free"
       THEN box' = [box EXCEPT !.stub = "listening"] /\ port' = "stub"
       ELSE box' = [box EXCEPT !.stub = "exited"] /\ UNCHANGED port
  /\ run.at \notin {"off", "done"}
  /\ UNCHANGED <<docvars, run, left, disturbed>>

Stranger ==
  /\ run.at \in {"sandbox", "seed", "stub", "wait"} /\ port = "free"
  /\ port' = "stranger"
  /\ UNCHANGED <<docvars, run, box, left, disturbed>>

(***************************************************************************)
(* The specification.  The runner goes on, and every program it waits for  *)
(* ends; whether the stub ever binds its port is left open.                *)
(***************************************************************************)
Init == DocInit /\ RunInit

Prepare ==
  \/ Unready \/ Load \/ ReservePort \/ MakeRoot \/ Seed \/ SeedFails
  \/ SpawnStub \/ StubFails \/ StubListens \/ WaitEnds

Cases ==
  \/ Skip \/ Spawn \/ CaseFails \/ CaseEnds \/ LateCaseEnds
  \/ SpawnRebuild \/ SpawnFails \/ RebuildEnds \/ AllRun

Finish == Report \/ DropStub \/ DropSandbox

RunStep == Prepare \/ Cases \/ Finish

Develop == run.at = "off" /\ DocNext /\ UNCHANGED runvars

Next ==
  \/ Develop \/ Call \/ RunStep \/ TimeUp \/ Kill \/ Again
  \/ StubBinds \/ Stranger

Spec == Init /\ [][Next]_vars

FairSpec == Spec /\ WF_vars(RunStep)

(***************************************************************************)
(* Properties.                                                             *)
(***************************************************************************)
\* The program says to the i-th case what the case expects.
Passed(i) == Says(Corpus[i]) = Corpus[i].maps_to

\* All that was to run has passed, and the stub was asked if it was to be.
Earned ==
  \A i \in DOMAIN Corpus : Chosen(run.args, Corpus[i]) =>
    Passed(i) /\ (IsRemote(Corpus[i]) => box.served)

\* A run that ends with status 0 has shown what it is for, though the program
\* be one built from older tables: to every case that was to run the program
\* says what the case expects, by name when it refuses, and if any of them
\* was to go to the network the stub has been asked.
GreenIsEarned == run.at = "done" /\ run.exit = "ok" => Earned

\* No case runs before the port its configuration names is the stub's own,
\* who ever may have taken it since it was reserved (wait_for_stub).
StubIsOurs == run.at \in Working => box.stub = "listening" /\ port = "stub"

\* A run that ends by itself, at whatever point, leaves no stub and no case
\* at work, and no sandbox but one it was told to keep, could not remove, or
\* was still filling: create_sandbox that fails half-way removes nothing.
NothingLeft ==
  run.at = "done" /\ left # "killed" =>
    /\ box.stub = "none" /\ ~box.child
    /\ box.root => run.args.keep \/ left \in {"unseeded", "unremoved"}

\* A run of the cases of one text on a program of that text, with --rebuild
\* or of less than all of them, that nothing but the cases gets in the way of.
Undisturbed(t) ==
  /\ ~disturbed
  /\ run.corpus = t /\ {program.rules, program.plan} = {t}
  /\ run.args.rebuild \/ run.args.failed \/ run.args.only # None

\* The order of the cases and their rebuild marks suffice: a program and
\* cases of the shipped cli.yaml pass, in a run with --rebuild or of less
\* than all the cases, if nothing but the cases themselves gets in the way.
RebuildKeepsGreen ==
  run.at = "report" /\ Undisturbed(Shipped.spec) => ~run.bad /\ (run.remote => box.served)

\* Each case of a text by itself, on a database that stands: it ends as it is
\* to, and marks a rebuild if it leaves no database; one that is to go to the
\* network goes there.  A build leaves a database.
CasesStand(t) ==
  /\ \A db \in BOOLEAN : After(PlanOf(t, t, Rebuild), db)
  /\ \A i, j \in DOMAIN Corpora[t] : Corpora[t][i].id = Corpora[t][j].id => i = j
  /\ \A tc \in ToSet(Corpora[t]) : ~Interactive(tc) =>
       LET key == Reply(t, tc)
           plan == PlanOf(t, t, tc)
           ok == key = None /\ Works(plan, TRUE) IN
         /\ Judge(tc, ok, key)
         /\ After(plan, TRUE) \/ (tc.rebuild /\ tc.key = "p")
         /\ IsRemote(tc) => Asks(t, tc.ctx, plan, TRUE)

\* A run that is not killed ends: no case, no stub and no clean-up holds it
\* for good, as long as the programs it spawns end.
RunEnds == run.at = "load" ~> run.at = "done"

(***************************************************************************)
(* The inductive invariant.                                                *)
(***************************************************************************)
\* What the runner holds where it is, and what it leaves.
BoxInv ==
  /\ left = "nothing" \/ run.at = "done"
  /\ run.at # "done" => (box.child <=> run.at \in {"running", "late", "rebuilding"})
  /\ run.at = "done" /\ box.child => left = "killed"
  /\ (box.stub = "listening") <=> (port = "stub")
  /\ run.at \in Working => box.stub = "listening"
  /\ run.at \in {"off", "load", "port", "sandbox", "seed", "stub", "drop_sandbox"} => box.stub = "none"
  /\ run.at \in {"off", "load", "port", "sandbox"} => ~box.root

\* The cases it has been through.
Begun == {"running", "late", "rebuild", "rebuilding"}

TallyInv ==
  /\ run.at \notin Working \cup {"drop_stub", "drop_sandbox", "done"} => run.next = 1
  /\ run.at \in Begun =>
       /\ run.next \in DOMAIN Corpus /\ Chosen(run.args, Current)
       /\ IsRemote(Current) => run.remote
  /\ run.at \in {"rebuild", "rebuilding"} => Passed(run.next)
  /\ run.at = "case" => run.next <= Len(Corpus) + 1
  /\ run.at = "report" => run.next = Len(Corpus) + 1
  /\ run.at \in Working => \A i \in 1 .. run.next - 1 : Chosen(run.args, Corpus[i]) =>
       /\ ~run.bad => Passed(i)
       /\ IsRemote(Corpus[i]) => run.remote
  /\ run.exit = "ok" => run.at \in {"drop_stub", "drop_sandbox", "done"} /\ Earned

\* The tree it began on.
TreeInv ==
  /\ run.at # "off" => dg.at = "idle" /\ files = Fresh(text)
  /\ run.corpus \in Emitting

IInv == DocInv /\ RunTypeOK /\ TreeInv /\ BoxInv /\ TallyInv /\ NothingLeft
=============================================================================
