------------------------------ MODULE SuiteProofs ------------------------------
(***************************************************************************)
(* Proofs about docgen and the test runner, for every set of texts and     *)
(* every way to call the runner.  DocInv is inductive under the steps of   *)
(* docgen, the authors and cargo, IInv of TestRun under all steps: what    *)
(* the runner holds (BoxInv) needs nothing of its cases, what it has seen  *)
(* of them (TallyInv) rests on the tree it began on.  RulesGiveExamples    *)
(* and PlanFollowsSpec rest on DocInv and on what is shown of any one text *)
(* docgen accepts; RebuildKeepsGreen on GreenInv, and on what each case of *)
(* cli.yaml does by itself.                                                *)
(***************************************************************************)
EXTENDS TestRun, FiniteSetTheorems, TLAPS

LEMMA OutputsListed ==
  /\ Len(Outputs) = 7
  /\ Files = {Outputs[i] : i \in 1 .. 7}
  /\ \A i \in 1 .. 7 : Outputs[i] \in Files
<1>1. Len(Outputs) = 7 /\ DOMAIN Outputs = 1 .. 7
  BY DEF Outputs
<1> QED
  BY <1>1 DEF Files, ToSet

LEMMA EmittingIsSound == Emitting \subseteq Sound /\ Sound \subseteq DOMAIN Specs
BY DEF Emitting, Sound

LEMMA CompilableEmits == Compiles =>
  /\ files["cli_rules"].spec \in Emitting
  /\ files["plan"].spec \in Emitting
  /\ Contexts \subseteq Guarded(Specs[files["cli_rules"].spec])
BY DEF Compiles, Compilable, RulesFit

LEMMA FreshFiles == ASSUME NEW r \in Readings PROVE Fresh(r) \in [Files -> Readings \cup {Cut}]
BY DEF Fresh

LEMMA NotRunningType ==
  NotRunning \in [at : Stages, n : 1 .. Len(Outputs), read : Readings]
BY OutputsListed, DocgenAssumption DEF NotRunning, Stages

LEMMA ReadingSpec == \A r \in Readings : r.spec \in DOMAIN Specs
BY DEF Readings

(***************************************************************************)
(* docgen: DocInv.                                                         *)
(***************************************************************************)
LEMMA DocInitial == DocInit => DocInv
<1> SUFFICES ASSUME DocInit PROVE DocInv
  OBVIOUS
<1>1. files = Fresh(Shipped) /\ Shipped \in Readings /\ Shipped # Cut
  BY DocgenAssumption DEF DocInit
<1>2. program \in [rules : DOMAIN Specs, plan : DOMAIN Specs]
  BY <1>1, ReadingSpec DEF DocInit
<1>3. DocTypeOK
  BY <1>1, <1>2, FreshFiles, NotRunningType, DocgenAssumption DEF DocInit, DocTypeOK
<1>4. \A f \in Files : files[f].spec \in Emitting
  BY <1>1, ShippedAssumption DEF Fresh
<1>5. {program.rules, program.plan} \subseteq Emitting
  BY ShippedAssumption DEF DocInit
<1> QED
  BY <1>3, <1>4, <1>5 DEF DocInit, DocInv, AllOrNothing, NotRunning

LEMMA EditKeeps == DocInv /\ Edit => DocInv'
<1> SUFFICES ASSUME DocInv, Edit PROVE DocInv'
  OBVIOUS
<1>1. DocTypeOK'
  BY DocgenAssumption DEF DocInv, DocTypeOK, Edit
<1> QED
  BY <1>1 DEF DocInv, Edit, AllOrNothing

LEMMA RestoreKeeps == DocInv /\ Restore => DocInv'
<1> SUFFICES ASSUME DocInv, Restore PROVE DocInv'
  OBVIOUS
<1>1. DocTypeOK'
  BY FreshFiles, NotRunningType, DocgenAssumption DEF DocInv, DocTypeOK, Restore, Past
<1>2. \A f \in Files : files'[f].spec \in Emitting
  BY ShippedAssumption DEF Restore, Fresh
<1> QED
  BY <1>1, <1>2 DEF DocInv, Restore, Past, AllOrNothing, NotRunning

LEMMA BuildKeeps == DocInv /\ Build => DocInv'
<1> SUFFICES ASSUME DocInv, Build PROVE DocInv'
  OBVIOUS
<1>1. files["cli_rules"].spec \in Emitting /\ files["plan"].spec \in Emitting
  BY CompilableEmits DEF Build
<1>2. {program'.rules, program'.plan} \subseteq Emitting
  BY <1>1 DEF Build
<1>3. program' \in [rules : DOMAIN Specs, plan : DOMAIN Specs]
  BY <1>1, EmittingIsSound DEF Build
<1>4. DocTypeOK'
  BY <1>3, NotRunningType DEF DocInv, DocTypeOK, Build, Past
<1> QED
  BY <1>2, <1>4 DEF DocInv, Build, Past, AllOrNothing, NotRunning

LEMMA StartKeeps == DocInv /\ Start => DocInv'
<1> SUFFICES ASSUME DocInv, Start PROVE DocInv'
  OBVIOUS
<1>1. dg'.at = "spec" /\ dg'.n = 1 /\ dg' \in [at : Stages, n : 1 .. Len(Outputs), read : Readings]
  BY NotRunningType DEF Start, NotRunning, Stages
<1>2. DocTypeOK'
  BY <1>1 DEF DocInv, DocTypeOK, Start
<1> QED
  BY <1>1, <1>2 DEF DocInv, Start, AllOrNothing

\* A step that reads leaves docgen where it is not writing.
LEMMA ReadsKeeps ==
  ASSUME DocInv, NEW at, NEW field \in {"spec", "template", "install"}, NEW ok \in BOOLEAN,
         NEW next \in {"template", "install", "render"},
         at \in {"spec", "template", "install"},
         Reads(at, field, ok, next),
         ok => [dg.read EXCEPT ![field] = text[field]].spec \in Sound
  PROVE  DocInv'
<1> DEFINE read == [dg.read EXCEPT ![field] = text[field]]
<1>1. dg \in [at : Stages, n : 1 .. Len(Outputs), read : Readings] /\ text \in Readings
  BY DEF DocInv, DocTypeOK
<1>2. read \in Readings
  BY <1>1 DEF Readings
<1>3. files = found /\ last = "none" /\ dg.at = at
  BY DEF DocInv, Reads
<1>4. CASE ok
  <2>1. dg' = [dg EXCEPT !.at = next, !.read = read] /\ last' = last
    BY <1>4 DEF Reads, Unless
  <2>2. dg'.at = next /\ dg'.read = read
    BY <2>1, <1>1
  <2>3. dg' \in [at : Stages, n : 1 .. Len(Outputs), read : Readings]
    BY <2>1, <1>1, <1>2 DEF Stages
  <2>4. DocTypeOK'
    BY <2>1, <2>3 DEF DocInv, DocTypeOK, Reads
  <2> HIDE DEF read
  <2>5. read.spec \in Sound
    BY <1>4 DEF read
  <2> QED
    BY <2>1, <2>2, <2>4, <2>5, <1>3 DEF DocInv, Reads, AllOrNothing
<1>5. CASE ~ok
  <2>1. dg' = NotRunning /\ last' = "refused"
    BY <1>5 DEF Reads, Unless
  <2>2. DocTypeOK'
    BY <2>1, NotRunningType DEF DocInv, DocTypeOK, Reads
  <2> QED
    BY <2>1, <2>2, <1>3 DEF DocInv, Reads, AllOrNothing, NotRunning
<1> QED
  BY <1>4, <1>5

LEMMA ReadingKeeps ==
  ASSUME DocInv, ReadSpec \/ ReadTemplate \/ ReadInstall PROVE DocInv'
<1>1. dg.read \in Readings /\ text \in Readings
  BY DEF DocInv, DocTypeOK
<1>2. CASE ReadSpec
  <2>1. text.spec \in Sound => [dg.read EXCEPT !["spec"] = text["spec"]].spec \in Sound
    BY <1>1 DEF Readings
  <2>2. (text.spec \in Sound) \in BOOLEAN
    OBVIOUS
  <2> QED
    BY <1>2, <2>1, <2>2, ReadsKeeps DEF ReadSpec
<1>3. CASE ReadTemplate
  <2>1. [dg.read EXCEPT !["template"] = text["template"]].spec \in Sound
    BY <1>1, <1>3 DEF Readings, DocInv, ReadTemplate, Reads
  <2>2. ValidTemplate(Specs[dg.read.spec], Templates[text.template]) \in BOOLEAN
    BY DEF ValidTemplate
  <2> QED
    BY <1>3, <2>1, <2>2, ReadsKeeps DEF ReadTemplate
<1>4. CASE ReadInstall
  <2>1. [dg.read EXCEPT !["install"] = text["install"]].spec \in Sound
    BY <1>1, <1>4 DEF Readings, DocInv, ReadInstall, Reads
  <2>2. ValidInstall(Installs[text.install]) \in BOOLEAN
    BY DEF ValidInstall
  <2> QED
    BY <1>4, <2>1, <2>2, ReadsKeeps DEF ReadInstall
<1> QED
  BY <1>2, <1>3, <1>4

LEMMA RenderKeeps == DocInv /\ Render => DocInv'
<1> SUFFICES ASSUME DocInv, Render PROVE DocInv'
  OBVIOUS
<1>1. files = found /\ last = "none" /\ DocTypeOK /\ dg.at = "render"
  BY DEF DocInv, Render
<1>2. CASE dg.read.spec \in Emitting
  <2>1. dg' = [dg EXCEPT !.at = "write", !.read = dg.read] /\ last' = last
    BY <1>2 DEF Render, Unless
  <2>2. dg'.at = "write" /\ dg'.read = dg.read /\ dg'.n = dg.n
    BY <2>1, <1>1 DEF DocTypeOK
  <2>3. DocTypeOK'
    BY <2>1, <1>1 DEF DocTypeOK, Render, Stages
  <2>4. dg.n = 1
    BY <1>1 DEF DocInv
  <2> QED
    BY <1>1, <1>2, <2>1, <2>2, <2>3, <2>4 DEF DocInv, Render, AllOrNothing
<1>3. CASE dg.read.spec \notin Emitting
  <2>1. dg' = NotRunning /\ last' = "refused"
    BY <1>3 DEF Render, Unless
  <2>2. DocTypeOK'
    BY <1>1, <2>1, NotRunningType DEF DocTypeOK, Render
  <2> QED
    BY <1>1, <2>1, <2>2 DEF DocInv, Render, AllOrNothing, NotRunning
<1> QED
  BY <1>2, <1>3

LEMMA WriteKeeps == DocInv /\ Write => DocInv'
<1> SUFFICES ASSUME DocInv, Write PROVE DocInv'
  OBVIOUS
<1> DEFINE f0 == Outputs[dg.n]
<1>1. /\ DocTypeOK /\ dg.at = "write" /\ dg.read.spec \in Emitting /\ last = "none"
      /\ \A i \in 1 .. dg.n - 1 : files[Outputs[i]] = dg.read
  BY DEF DocInv, Write
<1>2. /\ dg \in [at : Stages, n : 1 .. 7, read : Readings]
      /\ dg.n \in 1 .. 7 /\ dg.read \in Readings /\ f0 \in Files
      /\ files \in [Files -> Readings \cup {Cut}]
  BY <1>1, OutputsListed DEF DocTypeOK
<1>3. /\ files' = [files EXCEPT ![f0] = dg.read]
      /\ files' \in [Files -> Readings \cup {Cut}]
      /\ \A f \in Files : files'[f] = IF f = f0 THEN dg.read ELSE files[f]
  BY <1>2 DEF Write
<1> HIDE DEF f0
<1>4. \A f \in Files : files'[f] # Cut => files'[f].spec \in Emitting
  BY <1>1, <1>3 DEF DocInv
<1>5. \A i \in 1 .. dg.n : files'[Outputs[i]] = dg.read
  <2> SUFFICES ASSUME NEW i \in 1 .. dg.n PROVE files'[Outputs[i]] = dg.read
    OBVIOUS
  <2>1. i \in 1 .. 7 /\ Outputs[i] \in Files
    BY <1>2, OutputsListed
  <2>2. CASE i = dg.n
    BY <2>1, <2>2, <1>3 DEF f0
  <2>3. CASE i # dg.n
    <3>1. files[Outputs[i]] = dg.read
      BY <1>1, <1>2, <2>3
    <3> QED
      BY <3>1, <2>1, <1>3
  <2> QED
    BY <2>2, <2>3
<1>6. CASE dg.n < 7
  <2>1. dg' = [dg EXCEPT !.n = dg.n + 1] /\ last' = last /\ found' = found
    BY <1>6, OutputsListed DEF Write
  <2>2. dg'.n = dg.n + 1 /\ dg'.at = "write" /\ dg'.read = dg.read
    BY <2>1, <1>1, <1>2
  <2>3. dg' \in [at : Stages, n : 1 .. 7, read : Readings]
    BY <2>1, <1>2, <1>6
  <2>4. DocTypeOK'
    BY <2>1, <2>3, <1>1, <1>3, OutputsListed DEF DocTypeOK, Write
  <2>5. \A i \in 1 .. dg'.n - 1 : files'[Outputs[i]] = dg'.read
    BY <2>2, <1>2, <1>5
  <2> QED
    BY <2>1, <2>2, <2>4, <2>5, <1>1, <1>4 DEF DocInv, AllOrNothing, Write
<1>7. CASE dg.n = 7
  <2>1. dg' = [dg EXCEPT !.at = "idle", !.n = 1] /\ last' = "done" /\ found' = files'
    BY <1>7, OutputsListed DEF Write
  <2>2. dg'.at = "idle" /\ dg'.n = 1 /\ dg'.read = dg.read
    BY <2>1, <1>2
  <2>3. dg' \in [at : Stages, n : 1 .. 7, read : Readings]
    <3>1. "idle" \in Stages /\ 1 \in 1 .. 7
      BY DEF Stages
    <3> QED
      BY <2>1, <1>2, <3>1
  <2>4. DocTypeOK'
    BY <2>1, <2>3, <1>1, <1>3, OutputsListed DEF DocTypeOK, Write
  <2>5. files' = Fresh(dg.read)
    <3>1. \A f \in Files : files'[f] = dg.read
      BY <1>5, <1>7, OutputsListed
    <3> QED
      BY <1>3, <3>1 DEF Fresh
  <2> QED
    BY <2>1, <2>2, <2>4, <2>5, <1>4 DEF DocInv, AllOrNothing, Write
<1> QED
  BY <1>2, <1>6, <1>7

LEMMA StoppingKeeps == DocInv /\ (StopsAtWrite \/ StopsBefore) => DocInv'
<1> SUFFICES ASSUME DocInv, StopsAtWrite \/ StopsBefore PROVE DocInv'
  OBVIOUS
<1>1. Stops /\ last' \in {"failed", "killed"} /\ dg' = NotRunning /\ found' = files'
  BY DEF StopsAtWrite, StopsBefore, Stops
<1>2. /\ files' \in [Files -> Readings \cup {Cut}]
      /\ \A f \in Files : files'[f] = files[f] \/ files'[f] = Cut
  <2>1. files \in [Files -> Readings \cup {Cut}]
    BY DEF DocInv, DocTypeOK
  <2>2. CASE StopsBefore
    BY <2>1, <2>2 DEF StopsBefore
  <2>3. CASE StopsAtWrite
    <3>1. PICK c \in {files[Outputs[dg.n]], Cut} : files' = [files EXCEPT ![Outputs[dg.n]] = c]
      BY <2>3 DEF StopsAtWrite
    <3>2. Outputs[dg.n] \in Files
      BY OutputsListed DEF DocInv, DocTypeOK
    <3> QED
      BY <2>1, <3>1, <3>2
  <2> QED
    BY <2>2, <2>3
<1>3. DocTypeOK'
  BY <1>1, <1>2, NotRunningType DEF DocInv, DocTypeOK, Stops
<1>4. \A f \in Files : files'[f] # Cut => files'[f].spec \in Emitting
  BY <1>2 DEF DocInv
<1> QED
  BY <1>1, <1>3, <1>4 DEF DocInv, AllOrNothing, Stops, NotRunning

LEMMA DocStepKeeps == DocInv /\ DocNext => DocInv'
BY EditKeeps, RestoreKeeps, BuildKeeps, StartKeeps, ReadingKeeps, RenderKeeps, WriteKeeps,
   StoppingKeeps DEF DocNext, DocgenStep

LEMMA DocUnchanged == DocInv /\ UNCHANGED docvars => DocInv'
<1> SUFFICES ASSUME DocInv, UNCHANGED docvars PROVE DocInv'
  OBVIOUS
<1>1. DocTypeOK' /\ AllOrNothing'
  BY DEF DocInv, docvars, DocTypeOK, AllOrNothing
<1> QED
  BY <1>1 DEF DocInv, docvars

LEMMA CallKeepsDoc == DocInv /\ Call => DocInv'
<1> SUFFICES ASSUME DocInv, Call PROVE DocInv'
  OBVIOUS
<1>1. DocTypeOK'
  BY NotRunningType DEF DocInv, DocTypeOK, Call, Past
<1> QED
  BY <1>1 DEF DocInv, Call, Past, AllOrNothing, NotRunning

(***************************************************************************)
(* The runner.  A step of it leaves docgen's variables alone.              *)
(***************************************************************************)
LEMMA RunnerOnly ==
  RunStep \/ TimeUp \/ Kill \/ Again \/ StubBinds \/ Stranger => UNCHANGED docvars
BY DEF RunStep, Prepare, Cases, Finish, TimeUp, Kill, Again, StubBinds, Stranger, Unready, Load,
   ReservePort, MakeRoot, Seed, SeedFails, SpawnStub, StubFails, StubListens, WaitEnds, Skip,
   Spawn, CaseFails, CaseEnds, LateCaseEnds, SpawnRebuild, SpawnFails, RebuildEnds, AllRun,
   Report, DropStub, DropSandbox

LEMMA DocInvKept == DocInv /\ [Next]_vars => DocInv'
BY DocStepKeeps, DocUnchanged, CallKeepsDoc, RunnerOnly DEF Next, Develop, vars

\* The shape of the runner's two records.
Run == [at : Places, args : Calls \cup {Idle.args}, corpus : DOMAIN Specs, next : Nat \ {0},
        bad : BOOLEAN, remote : BOOLEAN, exit : {None, "ok", "error"}]

Box == [root : BOOLEAN, db : BOOLEAN, stub : {"none", "up", "listening", "exited"},
        served : BOOLEAN, child : BOOLEAN]

LEMMA TreeKept == DocInv /\ RunTypeOK /\ TreeInv /\ [Next]_vars => TreeInv'
<1> SUFFICES ASSUME DocInv, RunTypeOK, TreeInv, [Next]_vars PROVE TreeInv'
  OBVIOUS
<1>1. run \in Run
  BY DEF RunTypeOK, Run
<1>2. CASE UNCHANGED vars
  BY <1>2 DEF vars, docvars, runvars, TreeInv
<1>3. CASE Develop
  BY <1>3 DEF Develop, runvars, TreeInv
<1>4. CASE Call
  BY <1>1, <1>4 DEF Run, Call, Past, NotRunning, TreeInv
<1>5. CASE Again
  BY <1>5, ShippedAssumption DEF Again, Idle, TreeInv, docvars
<1>6. CASE Load
  <2>1. text \in Readings /\ files["testcases"] = text
    <3>1. "testcases" \in Files
      BY DEF Files, ToSet, Outputs
    <3> QED
      BY <3>1, <1>6 DEF DocInv, DocTypeOK, TreeInv, Load, Fresh
  <2>2. text.spec \in Emitting
    <3>1. "testcases" \in Files
      BY DEF Files, ToSet, Outputs
    <3> QED
      BY <3>1, <2>1, DocgenAssumption DEF DocInv
  <2> QED
    BY <1>1, <1>6, <2>1, <2>2 DEF Run, TreeInv, Load, docvars
<1>7. CASE (RunStep /\ ~Load) \/ TimeUp \/ Kill \/ StubBinds \/ Stranger
  <2>1. run'.corpus = run.corpus /\ run.at # "off"
    BY <1>1, <1>7
    DEF Run, RunStep, Prepare, Cases, Finish, TimeUp, Kill, Again, StubBinds, Stranger, Unready, Load,
        ReservePort, MakeRoot, Seed, SeedFails, SpawnStub, StubFails, StubListens, WaitEnds, Skip,
        Spawn, CaseFails, CaseEnds, LateCaseEnds, SpawnRebuild, SpawnFails, RebuildEnds, AllRun,
        Report, DropStub, DropSandbox, Goes, Fails, Judged, Working, BoxInv
  <2>2. UNCHANGED docvars
    BY <1>7, RunnerOnly
  <2> QED
    BY <2>1, <2>2 DEF TreeInv, docvars
<1> QED
  BY <1>2, <1>3, <1>4, <1>5, <1>6, <1>7 DEF Next

LEMMA PlacesNamed ==
  /\ {"case", "running", "late", "rebuild", "rebuilding", "report"} \subseteq Places
  /\ {"load", "port", "sandbox", "seed", "stub", "wait"} \subseteq Places
  /\ {"off", "drop_stub", "drop_sandbox", "done"} \subseteq Places
BY DEF Places, Working

Keeps ==
  /\ run'.args = run.args /\ run'.corpus = run.corpus /\ run'.next = run.next
  /\ run'.bad = run.bad /\ run'.remote = run.remote

LEMMA GoesTo ==
  ASSUME run \in Run, NEW p \in Places, Goes(p)
  PROVE  run' \in Run /\ run'.at = p /\ run'.exit = run.exit /\ Keeps
BY DEF Goes, Run, Keeps

LEMMA FailsAt ==
  ASSUME run \in Run, NEW p \in Places, Fails(p)
  PROVE  run' \in Run /\ run'.at = p /\ run'.exit = "error" /\ Keeps
BY DEF Fails, Run, Keeps

\* The runner goes on to the next case, or builds the database again first.
LEMMA Judging ==
  ASSUME run \in Run, NEW ok, NEW key, Judged(ok, key)
  PROVE  /\ run' \in Run
         /\ run'.args = run.args /\ run'.corpus = run.corpus
         /\ run'.remote = run.remote /\ run'.exit = run.exit
         /\ \/ /\ run'.at = "rebuild" /\ run'.next = run.next
               /\ run'.bad = run.bad /\ Judge(Current, ok, key)
            \/ /\ run'.at = "case" /\ run'.next = run.next + 1
               /\ ~run'.bad => ~run.bad /\ Judge(Current, ok, key)
<1>1. Judge(Current, ok, key) \in BOOLEAN
  BY DEF Judge
<1> DEFINE pass == Judge(Current, ok, key)
<1>2. pass \in BOOLEAN
  BY <1>1
<1>3. {"rebuild", "case"} \subseteq Places
  BY PlacesNamed
<1>4. \/ pass /\ run' = [run EXCEPT !.at = "rebuild"]
      \/ run' = [run EXCEPT !.at = "case", !.next = run.next + 1, !.bad = run.bad \/ ~pass]
  BY DEF Judged
<1>5. run.next + 1 \in Nat \ {0} /\ run.bad \in BOOLEAN
  BY DEF Run
<1> HIDE DEF pass
<1>6. CASE pass /\ run' = [run EXCEPT !.at = "rebuild"]
  BY <1>3, <1>6 DEF Run, pass
<1>7. CASE run' = [run EXCEPT !.at = "case", !.next = run.next + 1, !.bad = run.bad \/ ~pass]
  <2>1. PICK b \in BOOLEAN : b = (run.bad \/ ~pass)
    OBVIOUS
  <2>2. run' = [run EXCEPT !.at = "case", !.next = run.next + 1, !.bad = b]
    BY <1>7, <2>1
  <2>3. /\ run' \in Run /\ run'.bad = b /\ run'.at = "case" /\ run'.next = run.next + 1
        /\ run'.args = run.args /\ run'.corpus = run.corpus
        /\ run'.remote = run.remote /\ run'.exit = run.exit
    BY <2>2, <1>3, <1>5 DEF Run
  <2>4. ~b => ~run.bad /\ pass
    BY <2>1
  <2> QED
    BY <2>3, <2>4 DEF pass
<1> QED
  BY <1>4, <1>6, <1>7

LEMMA IdleType == Idle \in Run /\ NoBox \in Box
<1>1. Shipped.spec \in DOMAIN Specs
  BY ShippedAssumption, EmittingIsSound
<1> QED
  BY <1>1, PlacesNamed DEF Idle, NoBox, Run, Box

LEMMA RunTypeKept ==
  ASSUME DocInv, RunTypeOK, [Next]_vars, TreeInv' PROVE RunTypeOK'
<1>1. /\ run \in Run /\ box \in Box /\ port \in {"free", "stub", "stranger"}
      /\ left \in {"nothing", "unseeded", "unremoved", "killed"} /\ disturbed \in BOOLEAN
  BY DEF RunTypeOK, Run, Box
<1>2. run'.corpus \in DOMAIN Specs
  BY EmittingIsSound DEF TreeInv
<1> SUFFICES /\ run' \in Run /\ box' \in Box /\ port' \in {"free", "stub", "stranger"}
             /\ left' \in {"nothing", "unseeded", "unremoved", "killed"} /\ disturbed' \in BOOLEAN
  BY DEF RunTypeOK, Run, Box
<1>3. CASE UNCHANGED vars \/ Develop
  BY <1>1, <1>3 DEF vars, runvars, Develop
<1>4. CASE Call
  <2>1. PICK c \in Calls : run' = [run EXCEPT !.at = "load", !.args = c]
    BY <1>4 DEF Call
  <2>2. run' \in Run
    BY <1>1, <2>1, PlacesNamed DEF Run
  <2> QED
    BY <1>1, <1>4, <2>2 DEF Call
<1>5. CASE Again
  BY <1>5, IdleType DEF Again
<1>6. CASE Unready \/ SeedFails \/ StubFails \/ WaitEnds \/ SpawnFails \/ Kill
  <2>1. \E p \in Places : Fails(p)
    BY <1>6, PlacesNamed DEF Unready, SeedFails, StubFails, WaitEnds, SpawnFails, Kill
  <2>2. run' \in Run
    BY <1>1, <2>1, FailsAt
  <2> QED
    BY <1>1, <1>6, <2>2 DEF Unready, SeedFails, StubFails, WaitEnds, SpawnFails, Kill
<1>7. CASE \/ ReservePort \/ MakeRoot \/ Seed \/ SpawnStub \/ StubListens
           \/ SpawnRebuild \/ AllRun \/ DropStub \/ DropSandbox \/ TimeUp
  <2>1. \E p \in Places : Goes(p)
    BY <1>7, PlacesNamed DEF ReservePort, MakeRoot, Seed, SpawnStub, StubListens, SpawnRebuild,
                             AllRun, DropStub, DropSandbox, TimeUp
  <2>2. run' \in Run
    BY <1>1, <2>1, GoesTo
  <2>3. run.args.keep \in BOOLEAN
    <3>1. run.args \in Calls \cup {Idle.args}
      BY <1>1 DEF Run
    <3>2. CASE run.args \in Calls
      <4>1. {run.args.failed, run.args.rebuild, run.args.keep} \subseteq BOOLEAN
        BY <3>2, CallsAssumption
      <4> QED
        BY <4>1
    <3>3. CASE run.args = Idle.args
      <4>1. Idle.args.keep = FALSE
        BY DEF Idle
      <4> QED
        BY <3>3, <4>1
    <3> QED
      BY <3>1, <3>2, <3>3
  <2>4. box' \in Box
    BY <1>1, <1>7, <2>3 DEF ReservePort, MakeRoot, Seed, SpawnStub, StubListens, SpawnRebuild,
                            AllRun, DropStub, DropSandbox, TimeUp, Box
  <2> QED
    BY <1>1, <1>7, <2>2, <2>4 DEF ReservePort, MakeRoot, Seed, SpawnStub, StubListens,
                                  SpawnRebuild, AllRun, DropStub, DropSandbox, TimeUp
<1>8. CASE Load
  <2>1. {"done", "port"} \subseteq Places
    BY PlacesNamed
  <2>2. run' \in Run
    <3>1. \/ run' = [run EXCEPT !.at = "done", !.corpus = files["testcases"].spec, !.exit = "ok"]
          \/ run' = [run EXCEPT !.at = "port", !.corpus = files["testcases"].spec]
      BY <1>8 DEF Load
    <3>2. run'.corpus = files["testcases"].spec
      BY <1>1, <3>1 DEF Run
    <3> QED
      BY <1>1, <1>2, <2>1, <3>1, <3>2 DEF Run
  <2> QED
    BY <1>1, <1>8, <2>2 DEF Load
<1>9. CASE Skip \/ Spawn \/ Report
  <2>1. {"running", "drop_stub"} \subseteq Places
    BY PlacesNamed
  <2>2. \A b : (run.remote \/ IsRemote(b)) \in BOOLEAN
    BY DEF IsRemote
  <2>3. run' \in Run
    <3>1. CASE Skip
      <4>1. run.next + 1 \in Nat \ {0}
        BY <1>1 DEF Run
      <4>2. run' = [run EXCEPT !.next = run.next + 1]
        BY <3>1 DEF Skip
      <4> QED
        BY <1>1, <4>1, <4>2 DEF Run
    <3>2. CASE Spawn
      <4>1. PICK b \in BOOLEAN : b = (run.remote \/ IsRemote(Current))
        BY <2>2
      <4>2. run' = [run EXCEPT !.at = "running", !.remote = b]
        BY <3>2, <4>1 DEF Spawn
      <4> QED
        BY <1>1, <2>1, <4>2 DEF Run
    <3>3. CASE Report
      <4>1. PICK e \in {"ok", "error"} : run' = [run EXCEPT !.at = "drop_stub", !.exit = e]
        BY <3>3 DEF Report
      <4> QED
        BY <1>1, <2>1, <4>1 DEF Run
    <3> QED
      BY <1>9, <3>1, <3>2, <3>3
  <2>4. box' \in Box
    BY <1>1, <1>9 DEF Skip, Spawn, Report, Box
  <2> QED
    BY <1>1, <1>9, <2>3, <2>4 DEF Skip, Spawn, Report
<1>10. Whatever => box' \in Box
  BY <1>1 DEF Whatever, Box
<1>11. \A plan : /\ After(plan, box.db) \in BOOLEAN
               /\ \A ctx : AsksStub(ctx, plan, box.db) \in BOOLEAN
  BY DEF After, Works, Reaches, AsksStub, Asks
<1>12. \A ctx, plan : Acted(ctx, plan) => box' \in Box
  <2> SUFFICES ASSUME NEW ctx, NEW plan, Acted(ctx, plan) PROVE box' \in Box
    OBVIOUS
  <2>1. PICK db \in BOOLEAN, asked \in BOOLEAN :
          box' = [box EXCEPT !.child = FALSE, !.db = db, !.served = box.served \/ asked]
    BY <1>11 DEF Acted
  <2> QED
    BY <1>1, <2>1 DEF Box
<1>13. CASE CaseFails \/ CaseEnds
  <2>1. \E ok, key : Judged(ok, key)
    BY <1>13 DEF CaseFails, CaseEnds
  <2>2. run' \in Run
    BY <1>1, <2>1, Judging
  <2>3. CASE CaseFails
    BY <1>1, <1>10, <2>2, <2>3 DEF CaseFails
  <2>4. CASE CaseEnds
    <3>1. box' \in Box
      BY <1>12, <2>4 DEF CaseEnds
    <3> QED
      BY <1>1, <2>2, <2>4, <3>1 DEF CaseEnds
  <2> QED
    BY <1>13, <2>3, <2>4
<1>14. CASE LateCaseEnds \/ RebuildEnds
  <2>1. "case" \in Places
    BY PlacesNamed
  <2>2. run' \in Run
    <3>1. PICK b \in BOOLEAN : run' = [run EXCEPT !.at = "case", !.next = run.next + 1, !.bad = b]
      <4>1. CASE LateCaseEnds
        BY <4>1 DEF LateCaseEnds
      <4>2. CASE RebuildEnds
        <5>1. run.bad \in BOOLEAN /\ run = [run EXCEPT !.bad = run.bad]
          BY <1>1 DEF Run
        <5>2. run' = [run EXCEPT !.at = "case", !.next = run.next + 1]
          BY <4>2 DEF RebuildEnds
        <5>3. run' = [run EXCEPT !.at = "case", !.next = run.next + 1, !.bad = run.bad]
          BY <1>1, <5>2 DEF Run
        <5> QED
          BY <5>1, <5>3
      <4> QED
        BY <1>14, <4>1, <4>2
    <3>2. run.next + 1 \in Nat \ {0}
      BY <1>1 DEF Run
    <3> QED
      BY <1>1, <2>1, <3>1, <3>2 DEF Run
  <2>3. box' \in Box
    <3>1. CASE Whatever
      BY <3>1, <1>10
    <3>2. CASE \E ctx, plan : Acted(ctx, plan)
      BY <1>12, <3>2
    <3> QED
      BY <1>14, <3>1, <3>2 DEF LateCaseEnds, RebuildEnds
  <2> QED
    BY <1>1, <1>14, <2>2, <2>3 DEF LateCaseEnds, RebuildEnds
<1>15. CASE StubBinds \/ Stranger
  BY <1>1, <1>15 DEF StubBinds, Stranger, Box
<1> QED
  BY <1>3, <1>4, <1>5, <1>6, <1>7, <1>8, <1>9, <1>13, <1>14, <1>15
  DEF Next, RunStep, Prepare, Cases, Finish

(***************************************************************************)
(* What the runner holds.                                                  *)
(***************************************************************************)
LEMMA BoxKept ==
  ASSUME RunTypeOK, BoxInv, NothingLeft, [Next]_vars PROVE BoxInv' /\ NothingLeft'
<1>1. run \in Run /\ box \in Box /\ port \in {"free", "stub", "stranger"}
  BY DEF RunTypeOK, Run, Box
<1>2. /\ \A p \in Places : Goes(p) => run'.at = p /\ run'.args = run.args
      /\ \A p \in Places : Fails(p) => run'.at = p /\ run'.args = run.args
  BY <1>1, GoesTo, FailsAt DEF Keeps
<1>3. CASE UNCHANGED vars \/ Develop
  BY <1>3 DEF vars, runvars, Develop, BoxInv, NothingLeft
<1>4. CASE Call
  <2>1. run'.at = "load"
    BY <1>1, <1>4 DEF Call, Run
  <2> QED
    BY <1>4, <2>1 DEF Call, BoxInv, NothingLeft, Working
<1>5. CASE Again
  BY <1>5 DEF Again, Idle, NoBox, BoxInv, NothingLeft, Working
<1>6. CASE Unready
  <2>1. run'.at = "done" /\ run'.args = run.args
    BY <1>2, <1>6, PlacesNamed DEF Unready
  <2> QED
    BY <1>1, <1>6, <2>1 DEF Unready, BoxInv, NothingLeft, Working, Box
<1>7. CASE SeedFails
  <2>1. run'.at = "done" /\ run'.args = run.args
    BY <1>2, <1>7, PlacesNamed DEF SeedFails
  <2> QED
    BY <1>1, <1>7, <2>1 DEF SeedFails, BoxInv, NothingLeft, Working, Box
<1>8. CASE Kill
  <2>1. run'.at = "done" /\ run'.args = run.args
    BY <1>2, <1>8, PlacesNamed DEF Kill
  <2> QED
    BY <1>1, <1>8, <2>1 DEF Kill, BoxInv, NothingLeft, Working, Box
<1>9. CASE StubFails
  <2>1. run'.at = "drop_sandbox" /\ run'.args = run.args
    BY <1>2, <1>9, PlacesNamed DEF StubFails
  <2> QED
    BY <1>1, <1>9, <2>1 DEF StubFails, BoxInv, NothingLeft, Working, Box
<1>10. CASE WaitEnds
  <2>1. run'.at = "drop_stub" /\ run'.args = run.args
    BY <1>2, <1>10, PlacesNamed DEF WaitEnds
  <2> QED
    BY <1>1, <1>10, <2>1 DEF WaitEnds, BoxInv, NothingLeft, Working, Box
<1>11. CASE SpawnFails
  <2>1. run'.at = "drop_stub" /\ run'.args = run.args
    BY <1>2, <1>11, PlacesNamed DEF SpawnFails
  <2> QED
    BY <1>1, <1>11, <2>1 DEF SpawnFails, BoxInv, NothingLeft, Working, Box
<1>12. CASE ReservePort
  <2>1. run'.at = "sandbox" /\ run'.args = run.args
    BY <1>2, <1>12, PlacesNamed DEF ReservePort
  <2> QED
    BY <1>1, <1>12, <2>1 DEF ReservePort, BoxInv, NothingLeft, Working, Box
<1>13. CASE MakeRoot
  <2>1. run'.at = "seed" /\ run'.args = run.args
    BY <1>2, <1>13, PlacesNamed DEF MakeRoot
  <2> QED
    BY <1>1, <1>13, <2>1 DEF MakeRoot, BoxInv, NothingLeft, Working, Box
<1>14. CASE Seed
  <2>1. run'.at = "stub" /\ run'.args = run.args
    BY <1>2, <1>14, PlacesNamed DEF Seed
  <2> QED
    BY <1>1, <1>14, <2>1 DEF Seed, BoxInv, NothingLeft, Working, Box
<1>15. CASE SpawnStub
  <2>1. run'.at = "wait" /\ run'.args = run.args
    BY <1>2, <1>15, PlacesNamed DEF SpawnStub
  <2> QED
    BY <1>1, <1>15, <2>1 DEF SpawnStub, BoxInv, NothingLeft, Working, Box
<1>16. CASE StubListens
  <2>1. run'.at = "case" /\ run'.args = run.args
    BY <1>2, <1>16, PlacesNamed DEF StubListens
  <2> QED
    BY <1>1, <1>16, <2>1 DEF StubListens, BoxInv, NothingLeft, Working, Box
<1>17. CASE SpawnRebuild
  <2>1. run'.at = "rebuilding" /\ run'.args = run.args
    BY <1>2, <1>17, PlacesNamed DEF SpawnRebuild
  <2> QED
    BY <1>1, <1>17, <2>1 DEF SpawnRebuild, BoxInv, NothingLeft, Working, Box
<1>18. CASE AllRun
  <2>1. run'.at = "report" /\ run'.args = run.args
    BY <1>2, <1>18, PlacesNamed DEF AllRun
  <2> QED
    BY <1>1, <1>18, <2>1 DEF AllRun, BoxInv, NothingLeft, Working, Box
<1>19. CASE DropStub
  <2>1. run'.at = "drop_sandbox" /\ run'.args = run.args
    BY <1>2, <1>19, PlacesNamed DEF DropStub
  <2> QED
    BY <1>1, <1>19, <2>1 DEF DropStub, BoxInv, NothingLeft, Working, Box
<1>20. CASE DropSandbox
  <2>1. run'.at = "done" /\ run'.args = run.args
    BY <1>2, <1>20, PlacesNamed DEF DropSandbox
  <2> QED
    BY <1>1, <1>20, <2>1 DEF DropSandbox, BoxInv, NothingLeft, Working, Box
<1>21. CASE TimeUp
  <2>1. run'.at = "late" /\ run'.args = run.args
    BY <1>2, <1>21, PlacesNamed DEF TimeUp
  <2> QED
    BY <1>1, <1>21, <2>1 DEF TimeUp, BoxInv, NothingLeft, Working, Box
<1>22. CASE Load
  <2>1. run'.at \in {"done", "port"}
    BY <1>1, <1>22 DEF Load, Run
  <2> QED
    BY <1>22, <2>1 DEF Load, BoxInv, NothingLeft, Working
<1>23. CASE Skip \/ Spawn \/ Report
  <2>1. run'.at = IF Spawn THEN "running" ELSE IF Report THEN "drop_stub" ELSE "case"
    BY <1>1, <1>23 DEF Skip, Spawn, Report, Run
  <2> QED
    BY <1>1, <1>23, <2>1 DEF Skip, Spawn, Report, BoxInv, NothingLeft, Working, Box
<1>24. CASE CaseFails \/ CaseEnds \/ LateCaseEnds \/ RebuildEnds
  <2>1. run.at \in {"running", "late", "rebuilding"} /\ UNCHANGED <<port, left>>
    BY <1>24 DEF CaseFails, CaseEnds, LateCaseEnds, RebuildEnds
  <2>2. run'.at \in {"case", "rebuild"}
    <3>1. \A ok, key : Judged(ok, key) => run'.at \in {"case", "rebuild"}
      BY <1>1, Judging
    <3> QED
      BY <1>1, <1>24, <3>1 DEF CaseFails, CaseEnds, LateCaseEnds, RebuildEnds, Run
  <2>3. ~box'.child /\ box'.stub = box.stub
    BY <1>1, <1>24 DEF CaseFails, CaseEnds, LateCaseEnds, RebuildEnds, Acted, Whatever, Box
  <2> QED
    BY <2>1, <2>2, <2>3 DEF BoxInv, NothingLeft, Working
<1>25. CASE StubBinds \/ Stranger
  BY <1>1, <1>25 DEF StubBinds, Stranger, Box, BoxInv, NothingLeft, Working
<1> QED
  BY <1>3, <1>4, <1>5, <1>6, <1>7, <1>8, <1>9, <1>10, <1>11, <1>12, <1>13, <1>14, <1>15, <1>16, <1>17, <1>18, <1>19, <1>20, <1>21, <1>22, <1>23, <1>24, <1>25
  DEF Next, RunStep, Prepare, Cases, Finish

(***************************************************************************)
(* The cases of a text docgen accepts: a list, in which a case that is to  *)
(* pass is one that names no error.                                        *)
(***************************************************************************)
LEMMA ConcatSeq ==
  ASSUME NEW S, NEW a \in Seq(S), NEW b \in Seq(S) PROVE a \o b \in Seq(S)
OBVIOUS

LEMMA ListedSeq ==
  ASSUME NEW S, NEW q \in Seq(S), NEW T, NEW f \in [S -> T]
  PROVE  [j \in DOMAIN q |-> f[q[j]]] \in Seq(T)
OBVIOUS

LEMMA CasesListed ==
  ASSUME NEW t \in Sound, NEW S, NEW c,
         \A e \in ToSet(ExamplesOf(Specs[t], c)) : Case(c, e) \in S
  PROVE  CasesOf(Specs[t], c) \in Seq(S)
<1> DEFINE exs == ExamplesOf(Specs[t], c)
<1>1. exs \in Seq(ToSet(exs))
  <2>1. CASE c \in DOMAIN Specs[t].commands
    BY <2>1, EmittingIsSound, DocgenAssumption DEF ExamplesOf
  <2>2. CASE c \notin DOMAIN Specs[t].commands
    BY <2>2 DEF ExamplesOf
  <2> QED
    BY <2>1, <2>2
<1> DEFINE f == [e \in ToSet(exs) |-> Case(c, e)]
<1>2. f \in [ToSet(exs) -> S]
  OBVIOUS
<1>3. \A j \in DOMAIN exs : exs[j] \in ToSet(exs)
  BY DEF ToSet
<1>4. CasesOf(Specs[t], c) = [j \in DOMAIN exs |-> f[exs[j]]]
  BY <1>3 DEF CasesOf
<1> HIDE DEF f, exs
<1> QED
  BY <1>1, <1>2, <1>4, ListedSeq

LEMMA CorpusListed ==
  ASSUME run.corpus \in Emitting
  PROVE  /\ Len(Corpus) \in Nat /\ DOMAIN Corpus = 1 .. Len(Corpus)
         /\ \A i \in DOMAIN Corpus : Corpus[i].key = "p" <=> Corpus[i].maps_to = None
<1> DEFINE s == Specs[run.corpus]
           C == {"top", "build", "conf", "fetch", "run"}
           S == UNION {{Case(c, e) : e \in ToSet(ExamplesOf(s, c))} : c \in C}
<1>1. run.corpus \in Sound /\ run.corpus \in DOMAIN Specs
  BY EmittingIsSound
<1>2. \A c \in C : CasesOf(s, c) \in Seq(S)
  <2> SUFFICES ASSUME NEW c \in C PROVE CasesOf(s, c) \in Seq(S)
    OBVIOUS
  <2>1. \A e \in ToSet(ExamplesOf(s, c)) : Case(c, e) \in S
    OBVIOUS
  <2> HIDE DEF S
  <2> QED
    BY <1>1, <2>1, CasesListed
<1>3. Testcases(s) \in Seq(S)
  <2> HIDE DEF S
  <2> QED
    BY <1>2, ConcatSeq DEF Testcases
<1>4. Corpus = Testcases(s)
  BY <1>1 DEF Corpus, Corpora
<1>5. \A k \in S : k.key = "p" <=> k.maps_to = None
  <2> SUFFICES ASSUME NEW c \in C, NEW e \in ToSet(ExamplesOf(s, c))
               PROVE  Case(c, e).key = "p" <=> Case(c, e).maps_to = None
    OBVIOUS
  <2>1. ValidExamples(s)
    BY <1>1 DEF Sound, Valid
  <2>2. (e.maps_to = None) = e.valid
    <3>1. c \in DOMAIN s.commands /\ e \in ToSet(s.commands[c].examples)
      BY DEF ExamplesOf, ToSet
    <3> QED
      BY <2>1, <3>1 DEF ValidExamples
  <2> QED
    BY <2>2 DEF Case
<1> HIDE DEF S, s
<1> QED
  BY <1>3, <1>4, <1>5

LEMMA CorpusFixed ==
  ASSUME run'.corpus = run.corpus, UNCHANGED docvars
  PROVE  /\ Corpus' = Corpus
         /\ \A i : Passed(i)' <=> Passed(i)
<1>1. Corpus' = Corpus
  BY DEF Corpus, Corpora
<1> QED
  BY <1>1 DEF Passed, Says, Reply, docvars

LEMMA JudgedPasses ==
  ASSUME run.corpus \in Emitting, run.next \in DOMAIN Corpus, NEW ok,
         Judge(Current, ok, Says(Current)), ok => Says(Current) = None
  PROVE  Passed(run.next)
<1>1. Current.key = "p" <=> Current.maps_to = None
  BY CorpusListed DEF Current
<1> QED
  BY <1>1 DEF Judge, Passed, Current

LEMMA FailureFails ==
  ASSUME run.corpus \in Emitting, run.next \in DOMAIN Corpus
  PROVE  ~Judge(Current, FALSE, None)
<1>1. Current.key = "p" <=> Current.maps_to = None
  BY CorpusListed DEF Current
<1> QED
  BY <1>1 DEF Judge

(***************************************************************************)
(* What the runner has seen of its cases.                                  *)
(***************************************************************************)
LEMMA TallyKept ==
  ASSUME RunTypeOK, RunTypeOK', TreeInv, TallyInv, [Next]_vars PROVE TallyInv'
<1>1. run \in Run /\ run' \in Run /\ box \in Box
  BY DEF RunTypeOK, Run, Box
<1>2. run.corpus \in Emitting /\ run.next \in Nat \ {0} /\ run'.next \in Nat \ {0}
  BY <1>1 DEF TreeInv, Run
<1>3. Len(Corpus) \in Nat /\ DOMAIN Corpus = 1 .. Len(Corpus)
  BY <1>2, CorpusListed
<1> DEFINE Waits == {"off", "load", "port", "sandbox", "seed", "stub", "wait"}
           Ends == {"drop_stub", "drop_sandbox", "done"}
<1>4. run.at \in Waits \cup Working \cup Ends
  BY <1>1 DEF Run, Places
<1>5. run.at \in Waits => run.next = 1
  BY DEF TallyInv, Working
\* What needs nothing of the cases.
<1>6. ASSUME run'.exit = "error", run'.at \in Ends PROVE TallyInv'
  BY <1>6 DEF TallyInv, Working, Begun
<1>7. ASSUME run'.exit # "ok", run'.at \in Waits, run'.next = 1 PROVE TallyInv'
  BY <1>7 DEF TallyInv, Working, Begun
<1>8. /\ \A p \in Places : Goes(p) => run'.at = p /\ run'.exit = run.exit /\ Keeps
      /\ \A p \in Places : Fails(p) => run'.at = p /\ run'.exit = "error"
  BY <1>1, GoesTo, FailsAt
<1>9. run.at \notin Ends => run.exit # "ok"
  BY DEF TallyInv
<1>10. ASSUME run'.corpus = run.corpus, run'.args = run.args, UNCHANGED docvars
       PROVE  /\ Corpus' = Corpus /\ \A i : Passed(i)' <=> Passed(i)
              /\ \A i : Chosen(run.args, Corpus[i])' <=> Chosen(run.args, Corpus[i])
  <2>1. Corpus' = Corpus /\ \A i : Passed(i)' <=> Passed(i)
    BY <1>10, CorpusFixed
  <2> QED
    BY <1>10, <2>1 DEF Chosen, Interactive
<1>11. CASE UNCHANGED vars \/ Develop
  <2>1. UNCHANGED <<run, box>>
    BY <1>11 DEF vars, runvars, Develop
  <2>2. CASE UNCHANGED vars
    <3>1. Corpus' = Corpus /\ \A i : Passed(i)' <=> Passed(i)
      BY <2>1, <2>2, CorpusFixed DEF vars
    <3> QED
      BY <2>1, <3>1 DEF TallyInv, Earned, Current
  <2>3. CASE Develop
    BY <2>1, <2>3, <1>5, <1>7, <1>9 DEF Develop
  <2> QED
    BY <1>11, <2>2, <2>3
<1>12. CASE Call
  BY <1>1, <1>5, <1>7, <1>9, <1>12 DEF Call, Run
<1>13. CASE Again
  BY <1>7, <1>13 DEF Again, Idle, None
<1>14. CASE Unready \/ SeedFails \/ Kill \/ StubFails \/ WaitEnds \/ SpawnFails
  BY <1>6, <1>8, <1>14, PlacesNamed DEF Unready, SeedFails, Kill, StubFails, WaitEnds, SpawnFails
<1>15. CASE ReservePort \/ MakeRoot \/ Seed \/ SpawnStub
  BY <1>5, <1>7, <1>8, <1>9, <1>15, PlacesNamed
  DEF ReservePort, MakeRoot, Seed, SpawnStub, Keeps
<1>16. CASE StubBinds \/ Stranger
  <2>1. UNCHANGED <<run, docvars>> /\ box'.served = box.served
    BY <1>1, <1>16 DEF StubBinds, Stranger, Box
  <2>2. Corpus' = Corpus /\ \A i : Passed(i)' <=> Passed(i)
    BY <2>1, CorpusFixed
  <2> QED
    BY <2>1, <2>2 DEF TallyInv, Earned, Current
<1>17. CASE Load
  <2>1. run'.args = run.args /\ run'.next = run.next
    BY <1>1, <1>17 DEF Load, Run
  <2>2. CASE run'.at = "port" /\ run'.exit = run.exit
    BY <1>5, <1>7, <1>9, <1>17, <2>1, <2>2 DEF Load
  <2>3. CASE run'.at = "done" /\ Corpora[run'.corpus] = <<>>
    <3>1. Corpus' = <<>>
      BY <2>3 DEF Corpus, Corpora
    <3>2. Earned'
      BY <3>1 DEF Earned
    <3> QED
      BY <2>3, <3>2 DEF TallyInv, Working, Begun
  <2>4. \/ run' = [run EXCEPT !.at = "done", !.corpus = files["testcases"].spec, !.exit = "ok"]
           /\ Corpora[files["testcases"].spec] = <<>>
        \/ run' = [run EXCEPT !.at = "port", !.corpus = files["testcases"].spec]
    BY <1>17 DEF Load
  <2> QED
    BY <1>1, <2>2, <2>3, <2>4 DEF Run
\* From here docgen's variables, the corpus and the arguments are as they were.
<1>18. CASE StubListens
  <2>1. run'.at = "case" /\ run'.exit # "ok" /\ run'.next = 1
    BY <1>5, <1>8, <1>9, <1>18, PlacesNamed DEF StubListens, Keeps
  <2>2. run'.corpus = run.corpus /\ UNCHANGED docvars
    BY <1>8, <1>18, PlacesNamed DEF StubListens, Keeps
  <2>3. Corpus' = Corpus
    BY <2>2, CorpusFixed
  <2> QED
    BY <1>3, <2>1, <2>3 DEF TallyInv, Working, Begun
<1>19. ASSUME run.at = "case", run.next \in DOMAIN Corpus, Chosen(run.args, Current),
              run'.at = "running", run'.next = run.next, run'.args = run.args,
              run'.corpus = run.corpus, run'.bad = run.bad, run'.exit = run.exit,
              run'.remote = (run.remote \/ IsRemote(Current)), UNCHANGED docvars
       PROVE  TallyInv'
  <2>1. /\ Corpus' = Corpus /\ (\A i : Passed(i)' <=> Passed(i))
        /\ \A i : Chosen(run.args, Corpus[i])' <=> Chosen(run.args, Corpus[i])
    BY <1>10, <1>19
  <2>2. Current' = Current
    BY <1>19, <2>1 DEF Current
  <2>3. \A i \in 1 .. run.next - 1 : Chosen(run.args, Corpus[i]) =>
          /\ ~run.bad => Passed(i)
          /\ IsRemote(Corpus[i]) => run.remote
    BY <1>19 DEF TallyInv, Working
  <2>4. run'.exit # "ok"
    BY <1>9, <1>19
  <2> QED
    BY <1>19, <2>1, <2>2, <2>3, <2>4 DEF TallyInv, Working, Begun
<1>20. CASE Spawn
  <2>1. run.next \in DOMAIN Corpus
    BY <1>2, <1>3, <1>20 DEF Spawn
  <2>2. /\ run'.at = "running" /\ run'.next = run.next /\ run'.args = run.args
        /\ run'.corpus = run.corpus /\ run'.bad = run.bad /\ run'.exit = run.exit
        /\ run'.remote = (run.remote \/ IsRemote(Current))
    BY <1>1, <1>20 DEF Spawn, Run
  <2> QED
    BY <1>19, <1>20, <2>1, <2>2 DEF Spawn
\* The next case: what is known of this one is known of one more.
<1>21. ASSUME run.at \in {"case"} \cup Begun, run.next \in DOMAIN Corpus,
              Chosen(run.args, Current) =>
                (~run'.bad => ~run.bad /\ Passed(run.next)) /\ (IsRemote(Current) => run.remote),
              ~run'.bad => ~run.bad,
              run'.at = "case", run'.next = run.next + 1, run'.args = run.args,
              run'.corpus = run.corpus, run'.exit = run.exit, run'.remote = run.remote,
              UNCHANGED docvars
       PROVE  TallyInv'
  <2>1. /\ Corpus' = Corpus /\ (\A i : Passed(i)' <=> Passed(i))
        /\ \A i : Chosen(run.args, Corpus[i])' <=> Chosen(run.args, Corpus[i])
    BY <1>10, <1>21
  <2>2. \A i \in 1 .. run.next - 1 : Chosen(run.args, Corpus[i]) =>
          /\ ~run.bad => Passed(i)
          /\ IsRemote(Corpus[i]) => run.remote
    BY <1>21 DEF TallyInv, Working, Begun
  <2>3. \A i \in 1 .. run.next : Chosen(run.args, Corpus[i]) =>
          /\ ~run'.bad => Passed(i)
          /\ IsRemote(Corpus[i]) => run.remote
    <3> SUFFICES ASSUME NEW i \in 1 .. run.next, Chosen(run.args, Corpus[i])
                 PROVE  (~run'.bad => Passed(i)) /\ (IsRemote(Corpus[i]) => run.remote)
      OBVIOUS
    <3>1. CASE i = run.next
      BY <3>1, <1>21 DEF Current
    <3>2. CASE i # run.next
      BY <3>2, <1>2, <1>21, <2>2
    <3> QED
      BY <3>1, <3>2
  <2>4. run'.exit # "ok"
    BY <1>9, <1>21 DEF Begun
  <2>5. run'.next <= Len(Corpus) + 1 /\ run'.next - 1 = run.next
    BY <1>2, <1>3, <1>21
  <2> QED
    BY <1>21, <2>1, <2>3, <2>4, <2>5 DEF TallyInv, Working, Begun
<1>22. CASE Skip
  <2>1. run.next \in DOMAIN Corpus
    BY <1>2, <1>3, <1>22 DEF Skip
  <2>2. /\ run'.at = run.at /\ run'.next = run.next + 1 /\ run'.args = run.args
        /\ run'.corpus = run.corpus /\ run'.bad = run.bad /\ run'.exit = run.exit
        /\ run'.remote = run.remote
    BY <1>1, <1>22 DEF Skip, Run
  <2> QED
    BY <1>21, <1>22, <2>1, <2>2 DEF Skip
\* The same case, at another place of it.
<1>23. ASSUME run.at \in Begun, run'.at \in Begun, Keeps, run'.exit = run.exit,
              run'.at \in {"rebuild", "rebuilding"} => Passed(run.next), UNCHANGED docvars
       PROVE  TallyInv'
  <2>1. /\ Corpus' = Corpus /\ (\A i : Passed(i)' <=> Passed(i))
        /\ \A i : Chosen(run.args, Corpus[i])' <=> Chosen(run.args, Corpus[i])
    BY <1>10, <1>23 DEF Keeps
  <2>2. Current' = Current
    BY <1>23, <2>1 DEF Current, Keeps
  <2>3. run'.exit # "ok"
    BY <1>9, <1>23 DEF Begun
  <2>4. /\ run.next \in DOMAIN Corpus /\ Chosen(run.args, Current)
        /\ IsRemote(Current) => run.remote
        /\ \A i \in 1 .. run.next - 1 : Chosen(run.args, Corpus[i]) =>
             /\ ~run.bad => Passed(i)
             /\ IsRemote(Corpus[i]) => run.remote
    BY <1>23 DEF TallyInv, Working, Begun
  <2> QED
    BY <1>23, <2>1, <2>2, <2>3, <2>4 DEF TallyInv, Working, Begun, Keeps
<1>24. CASE TimeUp \/ SpawnRebuild
  <2>1. /\ run.at \in Begun /\ run'.at \in Begun /\ Keeps /\ run'.exit = run.exit
        /\ run'.at = IF TimeUp THEN "late" ELSE "rebuilding"
    BY <1>8, <1>24, PlacesNamed DEF TimeUp, SpawnRebuild, Begun
  <2>2. SpawnRebuild => Passed(run.next)
    BY DEF SpawnRebuild, TallyInv
  <2> QED
    BY <1>23, <1>24, <2>1, <2>2 DEF TimeUp, SpawnRebuild
<1>25. ASSUME NEW ok, NEW key, Judged(ok, key), run.at = "running", UNCHANGED docvars,
              Judge(Current, ok, key) => Passed(run.next)
       PROVE  TallyInv'
  <2>1. /\ run'.args = run.args /\ run'.corpus = run.corpus
        /\ run'.remote = run.remote /\ run'.exit = run.exit
    BY <1>1, <1>25, Judging
  <2>2. run.next \in DOMAIN Corpus /\ Chosen(run.args, Current) /\ (IsRemote(Current) => run.remote)
    BY <1>25 DEF TallyInv, Begun
  <2>3. CASE /\ run'.at = "rebuild" /\ run'.next = run.next
             /\ run'.bad = run.bad /\ Judge(Current, ok, key)
    BY <1>23, <1>25, <2>1, <2>3 DEF Keeps, Begun
  <2>4. CASE /\ run'.at = "case" /\ run'.next = run.next + 1
             /\ ~run'.bad => ~run.bad /\ Judge(Current, ok, key)
    BY <1>21, <1>25, <2>1, <2>2, <2>4 DEF Begun
  <2> QED
    BY <1>1, <1>25, <2>3, <2>4, Judging
<1>26. CASE CaseFails
  <2>1. run.at = "running" /\ Judged(FALSE, None) /\ UNCHANGED docvars
    BY <1>26 DEF CaseFails
  <2>2. ~Judge(Current, FALSE, None)
    BY <1>2, <2>1, FailureFails DEF TallyInv, Begun
  <2> QED
    BY <1>25, <2>1, <2>2
<1>27. CASE CaseEnds
  <2>1. run.at = "running" /\ UNCHANGED docvars
    BY <1>27 DEF CaseEnds
  <2>2. PICK ok : Judged(ok, Says(Current)) /\ (ok => Says(Current) = None)
    BY <1>27 DEF CaseEnds
  <2>3. Judge(Current, ok, Says(Current)) => Passed(run.next)
    BY <1>2, <2>1, <2>2, JudgedPasses DEF TallyInv, Begun
  <2> QED
    BY <1>25, <2>1, <2>2, <2>3
<1>28. CASE LateCaseEnds \/ RebuildEnds
  <2>1. /\ run.at \in Begun /\ run'.at = "case" /\ run'.next = run.next + 1
        /\ run'.args = run.args /\ run'.corpus = run.corpus
        /\ run'.exit = run.exit /\ run'.remote = run.remote
        /\ run'.bad \/ (RebuildEnds /\ run'.bad = run.bad)
    <3>1. CASE LateCaseEnds
      BY <1>1, <3>1 DEF LateCaseEnds, Run, Begun
    <3>2. CASE RebuildEnds
      <4>1. /\ run' = [run EXCEPT !.at = "case", !.next = run.next + 1]
            /\ run.at = "rebuilding"
        BY <3>2 DEF RebuildEnds
      <4> QED
        BY <1>1, <3>2, <4>1 DEF Run, Begun
    <3> QED
      BY <1>28, <3>1, <3>2
  <2>2. run.next \in DOMAIN Corpus /\ (IsRemote(Current) => run.remote)
    BY <2>1 DEF TallyInv
  <2>3. RebuildEnds => Passed(run.next)
    BY DEF RebuildEnds, TallyInv
  <2> QED
    BY <1>21, <1>28, <2>1, <2>2, <2>3 DEF LateCaseEnds, RebuildEnds
<1>29. CASE AllRun
  <2>1. /\ run.at = "case" /\ run'.at = "report" /\ run'.exit = run.exit /\ Keeps
        /\ UNCHANGED docvars
    BY <1>8, <1>29, PlacesNamed DEF AllRun
  <2>2. /\ Corpus' = Corpus /\ (\A i : Passed(i)' <=> Passed(i))
        /\ \A i : Chosen(run.args, Corpus[i])' <=> Chosen(run.args, Corpus[i])
    BY <1>10, <2>1 DEF Keeps
  <2>3. run.next = Len(Corpus) + 1
    BY <1>2, <1>3, <1>29, <2>1 DEF AllRun, TallyInv
  <2>4. run'.exit # "ok"
    BY <1>9, <2>1
  <2>5. \A i \in 1 .. run.next - 1 : Chosen(run.args, Corpus[i]) =>
          /\ ~run.bad => Passed(i)
          /\ IsRemote(Corpus[i]) => run.remote
    BY <2>1 DEF TallyInv, Working
  <2> QED
    BY <2>1, <2>2, <2>3, <2>4, <2>5 DEF TallyInv, Working, Begun, Keeps
<1>30. CASE Report
  <2>1. /\ run.at = "report" /\ run'.at = "drop_stub" /\ run'.args = run.args
        /\ run'.corpus = run.corpus /\ UNCHANGED <<box, docvars>>
        /\ run'.exit = "ok" => ~run.bad /\ (run.remote => box.served)
    BY <1>1, <1>30 DEF Report, Run
  <2>2. /\ Corpus' = Corpus /\ (\A i : Passed(i)' <=> Passed(i))
        /\ \A i : Chosen(run.args, Corpus[i])' <=> Chosen(run.args, Corpus[i])
    BY <1>10, <2>1
  <2>3. DOMAIN Corpus = 1 .. run.next - 1
    BY <1>2, <1>3, <2>1 DEF TallyInv
  <2>4. run'.exit = "ok" => Earned
    BY <2>1, <2>3 DEF TallyInv, Earned, Working
  <2>5. run'.exit = "ok" => Earned'
    BY <2>1, <2>2, <2>4 DEF Earned
  <2> QED
    BY <2>1, <2>5 DEF TallyInv, Working, Begun
<1>31. CASE DropStub \/ DropSandbox
  <2>1. /\ run.at \in Ends /\ run'.at \in Ends /\ run'.exit = run.exit /\ Keeps
        /\ box'.served = box.served /\ UNCHANGED docvars
    BY <1>1, <1>8, <1>31, PlacesNamed DEF DropStub, DropSandbox, Box
  <2>2. /\ Corpus' = Corpus /\ (\A i : Passed(i)' <=> Passed(i))
        /\ \A i : Chosen(run.args, Corpus[i])' <=> Chosen(run.args, Corpus[i])
    BY <1>10, <2>1 DEF Keeps
  <2>3. run'.exit = "ok" => Earned
    BY <2>1 DEF TallyInv
  <2>4. run'.exit = "ok" => Earned'
    BY <2>1, <2>2, <2>3 DEF Earned, Keeps
  <2> QED
    BY <2>1, <2>4 DEF TallyInv, Working, Begun
<1> QED
  BY <1>11, <1>12, <1>13, <1>14, <1>15, <1>16, <1>17, <1>18, <1>20, <1>22, <1>24, <1>26, <1>27,
     <1>28, <1>29, <1>30, <1>31
  DEF Next, RunStep, Prepare, Cases, Finish

(***************************************************************************)
(* A run that stays green.  What the cases of a text do by themselves on a *)
(* database (CasesStand) they do one after another, in any run that skips  *)
(* what would need the database or has it built again.                     *)
(***************************************************************************)
\* Until it has failed, or been disturbed, a run is green so far; a case that
\* is to run finds a database, which only the one case of such a run may take.
GreenInv(t) ==
  /\ run.at = "late" => disturbed
  /\ run.at \in {"off", "load", "port", "sandbox", "seed", "stub", "wait"} =>
       ~run.bad /\ ~run.remote
  /\ run.at \in {"stub", "wait"} => box.db
  /\ run.at \in {"case", "running", "rebuild", "rebuilding", "report"} /\ Undisturbed(t) =>
       /\ ~run.bad
       /\ run.remote => box.served \/ (run.at = "running" /\ IsRemote(Current))
       /\ run.at \in {"case", "running"} =>
            \/ box.db
            \/ /\ run.args.only # None
               /\ \E i \in 1 .. run.next - 1 : Corpus[i].id = run.args.only

\* The case that runs ends as it is to, and so does the database.
LEMMA CaseStands ==
  ASSUME NEW t, CasesStand(t), Undisturbed(t), run.at = "running",
         run \in Run, box \in Box, run.corpus \in Emitting, TallyInv, GreenInv(t)
  PROVE  /\ Judge(Current, Says(Current) = None /\ Works(CasePlan(Current), box.db), Says(Current))
         /\ \/ After(CasePlan(Current), box.db)
            \/ /\ Current.rebuild
               /\ Says(Current) = None /\ Works(CasePlan(Current), box.db)
         /\ IsRemote(Current) => AsksStub(Current.ctx, CasePlan(Current), box.db)
<1>1. run.next \in DOMAIN Corpus /\ Chosen(run.args, Current) /\ run.next \in Nat \ {0}
  BY DEF TallyInv, Begun, Run
<1>2. DOMAIN Corpus = 1 .. Len(Corpus) /\ Len(Corpus) \in Nat
  BY CorpusListed
<1>3. program.rules = t /\ program.plan = t /\ run.corpus = t /\ Corpus = Corpora[t]
  BY DEF Undisturbed, Corpus
<1>4. box.db = TRUE
  <2>1. SUFFICES ASSUME run.args.only # None,
                        NEW i \in 1 .. run.next - 1, Corpus[i].id = run.args.only
                 PROVE  FALSE
    BY DEF GreenInv, Box
  <2>2. Corpus[run.next].id = Corpus[i].id
    BY <1>1, <2>1 DEF Chosen, Current
  <2>3. i \in DOMAIN Corpus /\ i # run.next
    BY <1>1, <1>2
  <2> QED
    BY <1>1, <1>3, <2>2, <2>3 DEF CasesStand
<1>5. Current \in ToSet(Corpora[t]) /\ ~Interactive(Current)
  BY <1>1, <1>3 DEF Current, ToSet, Chosen
<1>6. Reply(t, Current) = Says(Current) /\ PlanOf(t, t, Current) = CasePlan(Current)
  BY <1>3 DEF Says, CasePlan
<1> DEFINE key == Says(Current)
           plan == CasePlan(Current)
           ok == key = None /\ Works(plan, TRUE)
<1>7. /\ Judge(Current, ok, key)
      /\ After(plan, TRUE) \/ (Current.rebuild /\ Current.key = "p")
      /\ IsRemote(Current) => Asks(t, Current.ctx, plan, TRUE)
  BY <1>5, <1>6 DEF CasesStand
<1>8. Current.key = "p" => ok
  BY <1>7 DEF Judge
<1> QED
  BY <1>3, <1>4, <1>7, <1>8 DEF AsksStub

LEMMA GreenKept ==
  ASSUME NEW t, CasesStand(t), RunTypeOK, RunTypeOK', TreeInv, TallyInv, GreenInv(t), [Next]_vars
  PROVE  GreenInv(t)'
<1>1. run \in Run /\ run' \in Run /\ box \in Box /\ box' \in Box
  BY DEF RunTypeOK, Run, Box
<1>2. run.corpus \in Emitting /\ run.next \in Nat \ {0}
  BY <1>1 DEF TreeInv, Run
<1> DEFINE Waits == {"off", "load", "port", "sandbox", "seed", "stub", "wait"}
           Ends == {"drop_stub", "drop_sandbox", "done"}
           Goings == {"case", "running", "rebuild", "rebuilding", "report"}
<1>3. /\ \A p \in Places : Goes(p) => run'.at = p /\ Keeps
      /\ \A p \in Places : Fails(p) => run'.at = p
  BY <1>1, GoesTo, FailsAt
\* What needs nothing of the cases.
<1>4. ASSUME run'.at \in Ends PROVE GreenInv(t)'
  BY <1>4 DEF GreenInv
<1>5. ASSUME run'.at \in Waits, run.at \in Waits, run'.bad = run.bad, run'.remote = run.remote,
             run'.at \in {"stub", "wait"} => box'.db
      PROVE  GreenInv(t)'
  BY <1>5 DEF GreenInv
<1>6. ASSUME disturbed', run'.at \in {"case", "late", "rebuild"} PROVE GreenInv(t)'
  BY <1>6 DEF GreenInv, Undisturbed
\* From here on docgen's variables, the corpus and the arguments stay.
<1>7. ASSUME run'.corpus = run.corpus, run'.args = run.args, UNCHANGED <<docvars, disturbed>>
      PROVE  Corpus' = Corpus /\ (Undisturbed(t)' <=> Undisturbed(t))
  <2>1. Corpus' = Corpus
    BY <1>7, CorpusFixed
  <2> QED
    BY <1>7, <2>1 DEF Undisturbed, docvars
<1>8. CASE UNCHANGED vars
  <2>1. Corpus' = Corpus /\ (Undisturbed(t)' <=> Undisturbed(t))
    BY <1>7, <1>8 DEF vars, runvars
  <2>2. UNCHANGED <<run, box, disturbed>>
    BY <1>8 DEF vars, runvars
  <2> QED
    BY <2>1, <2>2 DEF GreenInv, Current
<1>9. CASE Develop
  BY <1>5, <1>9 DEF Develop, runvars
<1>10. CASE Call
  BY <1>1, <1>5, <1>10 DEF Call, Run
<1>11. CASE Again
  BY <1>11 DEF Again, Idle, GreenInv
<1>12. CASE Unready \/ SeedFails \/ Kill \/ StubFails \/ WaitEnds \/ SpawnFails
  BY <1>3, <1>4, <1>12, PlacesNamed DEF Unready, SeedFails, Kill, StubFails, WaitEnds, SpawnFails
<1>13. CASE ReservePort \/ MakeRoot
  BY <1>3, <1>5, <1>13, PlacesNamed DEF ReservePort, MakeRoot, Keeps
<1>14. CASE Seed
  <2>1. box'.db
    BY <1>1, <1>14 DEF Seed, Box
  <2> QED
    BY <1>3, <1>5, <1>14, <2>1, PlacesNamed DEF Seed, Keeps
<1>15. CASE SpawnStub
  <2>1. box'.db = box.db
    BY <1>1, <1>15 DEF SpawnStub, Box
  <2>2. box.db
    BY <1>15 DEF SpawnStub, GreenInv
  <2> QED
    BY <1>3, <1>5, <1>15, <2>1, <2>2, PlacesNamed DEF SpawnStub, Keeps
<1>16. CASE Load
  <2>1. run'.bad = run.bad /\ run'.remote = run.remote /\ run'.at \in {"done", "port"}
    BY <1>1, <1>16 DEF Load, Run
  <2> QED
    BY <1>4, <1>5, <1>16, <2>1 DEF Load
<1>17. CASE StubBinds \/ Stranger
  <2>1. UNCHANGED <<run, docvars, disturbed>> /\ box'.served = box.served /\ box'.db = box.db
    BY <1>1, <1>17 DEF StubBinds, Stranger, Box
  <2>2. Corpus' = Corpus /\ (Undisturbed(t)' <=> Undisturbed(t))
    BY <1>7, <2>1
  <2> QED
    BY <2>1, <2>2 DEF GreenInv, Current
<1>18. CASE StubListens
  <2>1. run'.at = "case" /\ Keeps /\ UNCHANGED box /\ ~run.bad /\ ~run.remote /\ box.db
    BY <1>3, <1>18, PlacesNamed DEF StubListens, GreenInv
  <2> QED
    BY <2>1 DEF GreenInv, Keeps
<1>19. CASE TimeUp
  BY <1>3, <1>6, <1>19, PlacesNamed DEF TimeUp
<1>20. CASE LateCaseEnds
  <2>1. run'.at = "case" /\ disturbed'
    BY <1>1, <1>20 DEF LateCaseEnds, Run, GreenInv
  <2> QED
    BY <1>6, <2>1
<1>21. CASE CaseFails
  <2>1. run'.at \in {"case", "rebuild"} /\ disturbed'
    BY <1>1, <1>21, Judging DEF CaseFails
  <2> QED
    BY <1>6, <2>1
<1>22. CASE Spawn
  <2>1. /\ run.at = "case" /\ run'.at = "running" /\ run'.next = run.next /\ run'.args = run.args
        /\ run'.corpus = run.corpus /\ run'.bad = run.bad
        /\ run'.remote = (run.remote \/ IsRemote(Current))
        /\ box'.db = box.db /\ box'.served = box.served
        /\ UNCHANGED <<docvars, disturbed>>
    BY <1>1, <1>22 DEF Spawn, Run, Box
  <2>2. Corpus' = Corpus /\ (Undisturbed(t)' <=> Undisturbed(t))
    BY <1>7, <2>1
  <2>3. Current' = Current
    BY <2>1, <2>2 DEF Current
  <2> QED
    BY <2>1, <2>2, <2>3 DEF GreenInv
<1>23. CASE Skip
  <2>1. /\ run.at = "case" /\ run'.at = "case" /\ run'.next = run.next + 1 /\ run'.args = run.args
        /\ run'.corpus = run.corpus /\ run'.bad = run.bad /\ run'.remote = run.remote
        /\ UNCHANGED <<docvars, box, disturbed>>
    BY <1>1, <1>23 DEF Skip, Run
  <2>2. Corpus' = Corpus /\ (Undisturbed(t)' <=> Undisturbed(t))
    BY <1>7, <2>1
  <2>3. 1 .. run.next - 1 \subseteq 1 .. run'.next - 1
    BY <1>2, <2>1
  <2> QED
    BY <2>1, <2>2, <2>3 DEF GreenInv
<1>24. CASE SpawnRebuild
  <2>1. /\ run.at = "rebuild" /\ run'.at = "rebuilding" /\ Keeps /\ box'.served = box.served
        /\ UNCHANGED <<docvars, disturbed>>
    BY <1>1, <1>3, <1>24, PlacesNamed DEF SpawnRebuild, Box
  <2>2. Undisturbed(t)' <=> Undisturbed(t)
    BY <1>7, <2>1 DEF Keeps
  <2> QED
    BY <2>1, <2>2 DEF GreenInv, Keeps
<1>25. CASE RebuildEnds
  <2>1. CASE disturbed'
    <3>1. run'.at = "case"
      BY <1>1, <1>25 DEF RebuildEnds, Run
    <3> QED
      BY <1>6, <2>1, <3>1
  <2>2. CASE ~disturbed'
    <3>1. /\ run.at = "rebuilding" /\ run'.at = "case" /\ run'.args = run.args
          /\ run'.corpus = run.corpus /\ run'.bad = run.bad /\ run'.remote = run.remote
          /\ UNCHANGED <<docvars, disturbed>>
      BY <1>1, <1>25, <2>2 DEF RebuildEnds, Run
    <3>2. Undisturbed(t)' <=> Undisturbed(t)
      BY <1>7, <3>1
    <3> DEFINE plan == CasePlan(Rebuild)
    <3>3. box' = [box EXCEPT !.child = FALSE, !.db = After(plan, box.db),
                             !.served = box.served \/ AsksStub("build", plan, box.db)]
      BY <1>25, <2>2 DEF RebuildEnds, Acted
    <3> HIDE DEF plan
    <3>4. (box.served => box'.served) /\ box'.db = After(plan, box.db)
      BY <1>1, <3>3 DEF Box
    <3>5. Undisturbed(t) => box'.db
      <4>1. Undisturbed(t) => plan = PlanOf(t, t, Rebuild)
        BY DEF plan, CasePlan, Undisturbed
      <4> QED
        BY <1>1, <3>4, <4>1 DEF CasesStand, Box
    <3> QED
      BY <3>1, <3>2, <3>4, <3>5 DEF GreenInv
  <2> QED
    BY <2>1, <2>2
<1>26. CASE CaseEnds
  <2> DEFINE key == Says(Current)
             plan == CasePlan(Current)
             ok == key = None /\ Works(plan, box.db)
  <2>1. run.at = "running" /\ Judged(ok, key) /\ UNCHANGED <<docvars, disturbed>>
    BY <1>26 DEF CaseEnds
  <2>2. /\ run'.args = run.args /\ run'.corpus = run.corpus /\ run'.remote = run.remote
        /\ run'.at \in {"case", "rebuild"}
    BY <1>1, <2>1, Judging
  <2>3. Corpus' = Corpus /\ (Undisturbed(t)' <=> Undisturbed(t))
    BY <1>7, <2>1, <2>2
  <2>4. box' = [box EXCEPT !.child = FALSE, !.db = After(plan, box.db),
                           !.served = box.served \/ AsksStub(Current.ctx, plan, box.db)]
    BY <1>26 DEF CaseEnds, Acted
  <2> HIDE DEF key, plan
  <2>5. box'.db = After(plan, box.db) /\ box'.served = (box.served \/ AsksStub(Current.ctx, plan, box.db))
    BY <1>1, <2>4 DEF Box
  <2>6. CASE ~Undisturbed(t)
    BY <2>2, <2>3, <2>6 DEF GreenInv
  <2>7. CASE Undisturbed(t)
    <3>1. /\ Judge(Current, ok, key)
          /\ After(plan, box.db) \/ (Current.rebuild /\ ok)
          /\ IsRemote(Current) => AsksStub(Current.ctx, plan, box.db)
      BY <1>1, <1>2, <2>1, <2>7, CaseStands DEF key, plan
    <3>2. run'.remote => box'.served
      BY <2>1, <2>2, <2>5, <2>7, <3>1 DEF GreenInv
    <3>3. ~run.bad
      BY <2>1, <2>7 DEF GreenInv
    <3>4. run' = IF run.args.rebuild /\ ok /\ Current.rebuild
                   THEN [run EXCEPT !.at = "rebuild"]
                   ELSE [run EXCEPT !.at = "case", !.next = run.next + 1, !.bad = FALSE]
      BY <2>1, <3>1, <3>3, ~run.bad => (run.bad \/ ~TRUE) = FALSE DEF Judged
    <3>5. CASE run.args.rebuild /\ ok /\ Current.rebuild
      <4>1. run'.at = "rebuild" /\ run'.bad = run.bad
        BY <1>1, <3>4, <3>5 DEF Run
      <4> QED
        BY <3>2, <3>3, <4>1 DEF GreenInv
    <3>6. CASE ~(run.args.rebuild /\ ok /\ Current.rebuild)
      <4>1. run'.at = "case" /\ run'.bad = FALSE /\ run'.next = run.next + 1
        BY <1>1, <3>4, <3>6 DEF Run
      <4>2. box'.db \/ (run'.args.only # None
                        /\ \E i \in 1 .. run'.next - 1 : Corpus[i].id = run'.args.only)
        <5>1. SUFFICES ASSUME ~After(plan, box.db)
                       PROVE  run'.args.only # None
                              /\ \E i \in 1 .. run'.next - 1 : Corpus[i].id = run'.args.only
          BY <2>5
        <5>2. Current.rebuild /\ ok /\ ~run.args.rebuild
          BY <3>1, <3>6, <5>1
        <5>3. Current.key = "p"
          BY <3>1, <5>2 DEF Judge
        <5>4. run.next \in DOMAIN Corpus /\ Chosen(run.args, Current)
          BY <2>1 DEF TallyInv, Begun
        <5>5. run.args.only # None /\ Current.id = run.args.only
          BY <2>7, <5>2, <5>3, <5>4 DEF Undisturbed, Chosen
        <5>6. run.next \in 1 .. run'.next - 1
          BY <1>2, <4>1
        <5> QED
          BY <2>2, <5>5, <5>6 DEF Current
      <4> QED
        BY <2>3, <3>2, <4>1, <4>2 DEF GreenInv
    <3> QED
      BY <3>5, <3>6
  <2> QED
    BY <2>6, <2>7
<1>27. CASE AllRun
  <2>1. /\ run.at = "case" /\ run'.at = "report" /\ Keeps /\ UNCHANGED <<docvars, box, disturbed>>
    BY <1>3, <1>27, PlacesNamed DEF AllRun
  <2>2. Undisturbed(t)' <=> Undisturbed(t)
    BY <1>7, <2>1 DEF Keeps
  <2> QED
    BY <2>1, <2>2 DEF GreenInv, Keeps
<1>28. CASE Report \/ DropStub \/ DropSandbox
  <2>1. Report => run'.at = "drop_stub"
    BY <1>1 DEF Report, Run
  <2>2. DropStub \/ DropSandbox => run'.at \in Ends
    BY <1>3, PlacesNamed DEF DropStub, DropSandbox
  <2> QED
    BY <1>4, <1>28, <2>1, <2>2
<1> QED
  BY <1>8, <1>9, <1>10, <1>11, <1>12, <1>13, <1>14, <1>15, <1>16, <1>17, <1>18, <1>19, <1>20,
     <1>21, <1>22, <1>23, <1>24, <1>25, <1>26, <1>27, <1>28
  DEF Next, RunStep, Prepare, Cases, Finish

(***************************************************************************)
(* One text that docgen accepts.                                           *)
(***************************************************************************)

\* The program says to the examples what the text says of them: what docgen
\* tries is the answer normalize gives, but for a top-level invocation with
\* flags and no target.
LEMMA AcceptedAnswers == ASSUME NEW s, Valid(s) PROVE Answered(s)
<1> SUFFICES ASSUME NEW c \in Contexts \cap Guarded(s), NEW e \in ToSet(s.commands[c].examples),
                    InModel(s, e), ~Targetless(c, e)
             PROVE  Answer(s, c, e.flags) = e.maps_to
  BY DEF Answered
<1> DEFINE table == Lowered(s.commands[c])
<1>1. Expected(c, table, e.flags) = e.maps_to
  BY DEF Valid, ValidRules, CheckContext, Agrees
<1>2. (e.maps_to = None) = e.valid
  <2>1. c \in DOMAIN s.commands
    BY DEF Guarded
  <2> QED
    BY <2>1 DEF Valid, ValidExamples
<1>3. c # "conf"
  BY DEF Contexts
<1> HIDE DEF table
<1>4. CASE c = "top"
  BY <1>1, <1>2, <1>4 DEF Answer, Expected, Targetless, table
<1>5. CASE c # "top"
  BY <1>1, <1>3, <1>5 DEF Answer, Expected, table
<1> QED
  BY <1>4, <1>5

\* A flag that is not among the allowed ones of its command is refused: what
\* the tables of an accepted text let through has allowed flags only.
THEOREM OnlyAllowed ==
  ASSUME NEW s, Valid(s), NEW c \in Guarded(s), NEW flags \in SUBSET s.flags,
         \A i \in DOMAIN Lowered(s.commands[c]) : ~Fires(Lowered(s.commands[c])[i], flags),
         s.commands[c].reject \in Seq(ToSet(s.commands[c].reject)),
         s.commands[c].guards \in Seq(ToSet(s.commands[c].guards))
  PROVE  flags \subseteq s.commands[c].allowed
<1> DEFINE cmd == s.commands[c]
           table == Lowered(cmd)
<1> SUFFICES ASSUME NEW f \in flags, f \notin cmd.allowed PROVE FALSE
  OBVIOUS
<1>1. f \in {r.flag : r \in ToSet(cmd.reject)}
  BY DEF Valid, ValidRules, CheckContext
<1>2. PICK i \in DOMAIN cmd.reject : cmd.reject[i].flag = f
  BY <1>1 DEF ToSet
<1>3. i \in DOMAIN table /\ table[i] = Guard({f}, {}, cmd.reject[i].error)
  <2> DEFINE S == ToSet(cmd.guards) \cup {Guard({r.flag}, {}, r.error) : r \in ToSet(cmd.reject)}
             first == [j \in DOMAIN cmd.reject |-> Guard({cmd.reject[j].flag}, {}, cmd.reject[j].error)]
  <2>1. \A j \in DOMAIN cmd.reject : cmd.reject[j] \in ToSet(cmd.reject)
    BY DEF ToSet
  <2>2. \A j \in DOMAIN cmd.reject : Guard({cmd.reject[j].flag}, {}, cmd.reject[j].error) \in S
    BY <2>1
  <2>3. cmd.guards \in Seq(S)
    OBVIOUS
  <2> HIDE DEF S
  <2>4. first \in Seq(S) /\ DOMAIN first = DOMAIN cmd.reject
    <3>1. Len(cmd.reject) \in Nat /\ DOMAIN cmd.reject = 1 .. Len(cmd.reject)
      OBVIOUS
    <3>2. first \in [1 .. Len(cmd.reject) -> S]
      BY <2>2, <3>1
    <3>3. DOMAIN first = DOMAIN cmd.reject
      OBVIOUS
    <3> HIDE DEF first
    <3>4. first \in Seq(S)
      BY <3>1, <3>2
    <3> QED
      BY <3>3, <3>4
  <2>5. first[i] = Guard({f}, {}, cmd.reject[i].error)
    BY <1>2
  <2>6. table = first \o cmd.guards
    BY DEF Lowered
  <2> HIDE DEF first
  <2>7. i \in DOMAIN first
    BY <1>2, <2>4
  <2>8. i \in DOMAIN (first \o cmd.guards) /\ (first \o cmd.guards)[i] = first[i]
    BY <2>3, <2>4, <2>7
  <2> HIDE DEF table
  <2> QED
    BY <2>5, <2>6, <2>8
<1>4. Fires(table[i], flags)
  BY <1>3 DEF Fires, Guard
<1> QED
  BY <1>3, <1>4

(***************************************************************************)
(* The planner docgen writes.                                              *)
(***************************************************************************)
\* The numbers of n places, counted from one and from zero.
LEMMA Numbered ==
  ASSUME NEW n \in Nat
  PROVE  /\ IsFiniteSet(1 .. n) /\ Cardinality(1 .. n) = n
         /\ IsFiniteSet(0 .. n - 1) /\ Cardinality(0 .. n - 1) = n
<1>1. n \in Int /\ n - 1 \in Int /\ 0 \in Int /\ 1 \in Int
  OBVIOUS
<1>2. IsFiniteSet(1 .. n) /\ Cardinality(1 .. n) = IF 1 > n THEN 0 ELSE n - 1 + 1
  BY <1>1, FS_Interval
<1>3. IsFiniteSet(0 .. n - 1)
      /\ Cardinality(0 .. n - 1) = IF 0 > n - 1 THEN 0 ELSE (n - 1) - 0 + 1
  BY <1>1, FS_Interval
<1> QED
  BY <1>2, <1>3

\* What comes before what: any two members of S are ordered, one way.
Orders(before, S) ==
  /\ before \in [S -> SUBSET S]
  /\ \A a \in S : a \notin before[a]
  /\ \A a, b \in S : a # b => a \in before[b] \/ b \in before[a]
  /\ \A a, b \in S : a \in before[b] => before[a] \subseteq before[b]

\* A finite set that is ordered has each member in its place, once.
LEMMA Ordered ==
  ASSUME NEW S, IsFiniteSet(S), NEW before, Orders(before, S)
  PROVE  /\ Cardinality(S) \in Nat
         /\ InOrder(before) \in [1 .. Cardinality(S) -> S]
         /\ \A a \in S : \E k \in 1 .. Cardinality(S) : InOrder(before)[k] = a
         /\ \A j, k \in 1 .. Cardinality(S) :
              j < k => InOrder(before)[j] \in before[InOrder(before)[k]]
<1> DEFINE n == Cardinality(S)
           count == [a \in S |-> Cardinality(before[a])]
           q == InOrder(before)
<1>0. /\ before \in [S -> SUBSET S]
      /\ \A a \in S : a \notin before[a]
      /\ \A a, b \in S : a # b => a \in before[b] \/ b \in before[a]
      /\ \A a, b \in S : a \in before[b] => before[a] \subseteq before[b]
  BY DEF Orders
<1>1. n \in Nat
  BY FS_CardinalityType
<1>2. ASSUME NEW a \in S PROVE IsFiniteSet(before[a]) /\ count[a] \in Nat
  <2>1. IsFiniteSet(before[a])
    BY <1>0, FS_Subset
  <2> QED
    BY <2>1, FS_CardinalityType
<1>3. ASSUME NEW a \in S PROVE count[a] \in 0 .. n - 1
  <2>1. before[a] \subseteq S \ {a}
    BY <1>0
  <2>2. IsFiniteSet(S \ {a}) /\ Cardinality(S \ {a}) = n - 1
    BY FS_RemoveElement
  <2>3. Cardinality(before[a]) <= n - 1
    BY <2>1, <2>2, FS_Subset
  <2> QED
    BY <1>1, <1>2, <2>3
<1>4. ASSUME NEW a \in S, NEW b \in S, a \in before[b] PROVE count[a] < count[b]
  <2>1. before[a] \subseteq before[b] /\ before[a] # before[b]
    BY <1>0, <1>4
  <2>2. Cardinality(before[a]) <= Cardinality(before[b])
        /\ Cardinality(before[a]) # Cardinality(before[b])
    BY <1>2, <2>1, FS_Subset
  <2> QED
    BY <1>2, <2>2
<1>5. \A a, b \in S : count[a] = count[b] => a = b
  <2> SUFFICES ASSUME NEW a \in S, NEW b \in S, count[a] = count[b], a # b PROVE FALSE
    OBVIOUS
  <2>1. a \in before[b] \/ b \in before[a]
    BY <1>0
  <2>2. count[a] < count[b] \/ count[b] < count[a]
    BY <1>4, <2>1
  <2> QED
    BY <1>2, <2>2
<1> HIDE DEF count
<1>6. count \in Surjection(S, 0 .. n - 1)
  <2>1. count \in [S -> 0 .. n - 1]
    BY <1>3 DEF count
  <2>2. count \in Injection(S, 0 .. n - 1)
    BY <1>5, <2>1 DEF Injection, IsInjective
  <2>3. IsFiniteSet(0 .. n - 1) /\ Cardinality(0 .. n - 1) = n
    BY <1>1, Numbered
  <2> DEFINE positions == 0 .. n - 1
  <2>4. count \in Injection(S, positions) /\ IsFiniteSet(positions)
        /\ Cardinality(S) = Cardinality(positions)
    BY <2>2, <2>3
  <2> HIDE DEF positions
  <2>5. count \in Surjection(S, positions)
    BY <2>4, FS_Injection
  <2> QED
    BY <2>5 DEF positions
<1>7. ASSUME NEW k \in 1 .. n PROVE q[k] \in S /\ count[q[k]] = k - 1
  <2>1. k - 1 \in 0 .. n - 1
    BY <1>1
  <2>2. \E a \in S : count[a] = k - 1
    BY <1>6, <2>1 DEF Surjection
  <2>3. q[k] = CHOOSE a \in S : Cardinality(before[a]) = k - 1
    BY <1>0 DEF InOrder
  <2>4. \E a \in S : Cardinality(before[a]) = k - 1
    BY <2>2 DEF count
  <2>5. q[k] \in S /\ Cardinality(before[q[k]]) = k - 1
    BY <2>3, <2>4
  <2> QED
    BY <2>5 DEF count
<1>8. q \in [1 .. n -> S]
  BY <1>0, <1>7 DEF InOrder
<1>9. ASSUME NEW a \in S PROVE \E k \in 1 .. n : q[k] = a
  <2>1. count[a] + 1 \in 1 .. n /\ (count[a] + 1) - 1 = count[a]
    BY <1>1, <1>3 DEF count
  <2>2. q[count[a] + 1] = a
    BY <1>5, <1>7, <2>1
  <2> QED
    BY <2>1, <2>2
<1>10. ASSUME NEW j \in 1 .. n, NEW k \in 1 .. n, j < k PROVE q[j] \in before[q[k]]
  <2>1. q[j] \in S /\ q[k] \in S /\ count[q[j]] = j - 1 /\ count[q[k]] = k - 1
    BY <1>7
  <2>2. count[q[j]] < count[q[k]]
    BY <1>1, <1>10, <2>1
  <2>3. q[j] # q[k] /\ ~(count[q[k]] < count[q[j]])
    BY <1>1, <1>10, <2>1
  <2> QED
    BY <1>0, <1>4, <2>1, <2>3
<1> QED
  BY <1>1, <1>8, <1>9, <1>10

\* In the order of their ranks, no two of one rank.
Ranked(s, q) == \A i, j \in DOMAIN q : i < j => RankOf(s, q[i][1]) < RankOf(s, q[j][1])

\* p has the elements of q at the positions S, in their order.
Arranges(p, E, q, S, before) ==
  /\ p \in Seq(E)
  /\ ToSet(p) = {q[i] : i \in S}
  /\ \A j, k \in DOMAIN p : j < k =>
       \E a, b \in S : a \in before[b] /\ p[j] = q[a] /\ p[k] = q[b]

LEMMA PickedAre ==
  ASSUME NEW E, NEW q \in Seq(E), NEW S \in SUBSET DOMAIN q, NEW before, Orders(before, S)
  PROVE  Arranges(Picked(q, before), E, q, S, before)
<1> DEFINE n == Cardinality(S)
           at == InOrder(before)
           p == Picked(q, before)
<1>1. IsFiniteSet(S)
  <2>1. DOMAIN q = 1 .. Len(q) /\ Len(q) \in Nat
    OBVIOUS
  <2>2. IsFiniteSet(DOMAIN q)
    BY <2>1, Numbered
  <2> QED
    BY <2>2, FS_Subset
<1>2. /\ n \in Nat
      /\ at \in [1 .. n -> S]
      /\ \A a \in S : \E k \in 1 .. n : at[k] = a
      /\ \A j, k \in 1 .. n : j < k => at[j] \in before[at[k]]
  BY <1>1, Ordered
<1>3. p = [k \in 1 .. n |-> q[at[k]]]
  BY <1>2 DEF Picked
<1> HIDE DEF n, at, p
<1>4. \A k \in 1 .. n : q[at[k]] \in E
  BY <1>2
<1>5. p \in Seq(E) /\ Len(p) = n /\ DOMAIN p = 1 .. n
  BY <1>2, <1>3, <1>4
<1>6. ToSet(p) = {q[i] : i \in S}
  <2>1. ToSet(p) = {p[k] : k \in 1 .. n}
    BY <1>5 DEF ToSet
  <2>2. \A k \in 1 .. n : p[k] = q[at[k]] /\ at[k] \in S
    BY <1>2, <1>3
  <2>3. \A a \in S : \E k \in 1 .. n : at[k] = a
    BY <1>2
  <2>4. {p[k] : k \in 1 .. n} \subseteq {q[i] : i \in S}
    BY <2>2
  <2>5. {q[i] : i \in S} \subseteq {p[k] : k \in 1 .. n}
    BY <2>2, <2>3
  <2> QED
    BY <2>1, <2>4, <2>5
<1>7. \A j, k \in 1 .. n : j < k => \E a, b \in S : a \in before[b] /\ p[j] = q[a] /\ p[k] = q[b]
  BY <1>2, <1>3
<1> QED
  BY <1>5, <1>6, <1>7 DEF p, Arranges

\* What is left of a list is in its order.
LEMMA FilteredAre ==
  ASSUME NEW E, NEW q \in Seq(E), NEW T
  PROVE  /\ Filtered(q, T) \in Seq(E)
         /\ ToSet(Filtered(q, T)) = ToSet(q) \cap T
         /\ \A s : Ranked(s, q) => Ranked(s, Filtered(q, T))
<1> DEFINE kept == {i \in DOMAIN q : q[i] \in T}
           before == [i \in kept |-> {j \in kept : j < i}]
           p == Filtered(q, T)
<1>0. kept \subseteq DOMAIN q
  OBVIOUS
<1>1. DOMAIN q \subseteq Nat
  OBVIOUS
<1>2. /\ \A a \in kept : a \notin before[a]
      /\ \A a, b \in kept : a # b => a \in before[b] \/ b \in before[a]
      /\ \A a, b \in kept : a \in before[b] => before[a] \subseteq before[b]
      /\ \A a, b \in kept : a \in before[b] => a < b
  BY <1>1
<1>3. Orders(before, kept) /\ kept \in SUBSET DOMAIN q
  BY <1>2 DEF Orders
<1>4. p = Picked(q, before)
  BY DEF Filtered
<1> HIDE DEF before
<1>5. /\ p \in Seq(E)
      /\ ToSet(p) = {q[i] : i \in kept}
      /\ \A j, k \in DOMAIN p : j < k =>
           \E a, b \in kept : a \in before[b] /\ p[j] = q[a] /\ p[k] = q[b]
  <2> HIDE DEF kept, p
  <2>1. Arranges(p, E, q, kept, before)
    BY <1>3, <1>4, PickedAre
  <2> QED
    BY <2>1 DEF Arranges
<1> HIDE DEF p
<1>6. ToSet(p) = ToSet(q) \cap T
  <2>1. ToSet(q) = {q[i] : i \in DOMAIN q}
    BY DEF ToSet
  <2>2. {q[i] : i \in kept} = {q[i] : i \in DOMAIN q} \cap T
    BY Zenon
  <2> QED
    BY <1>5, <2>1, <2>2
<1>7. ASSUME NEW s, Ranked(s, q) PROVE Ranked(s, p)
  <2> SUFFICES ASSUME NEW j \in DOMAIN p, NEW k \in DOMAIN p, j < k
               PROVE  RankOf(s, p[j][1]) < RankOf(s, p[k][1])
    BY DEF Ranked
  <2>1. PICK a \in kept, b \in kept : a \in before[b] /\ p[j] = q[a] /\ p[k] = q[b]
    BY <1>5
  <2>2. a \in DOMAIN q /\ b \in DOMAIN q /\ a < b
    BY <1>2, <2>1
  <2> QED
    BY <1>7, <2>1, <2>2 DEF Ranked
<1> QED
  BY <1>5, <1>6, <1>7 DEF p

\* What is where when q comes after p.
FirstThen(r, p, q) ==
  /\ Len(p) \in Nat /\ DOMAIN p = 1 .. Len(p) /\ DOMAIN q = 1 .. Len(q) /\ Len(q) \in Nat
  /\ DOMAIN r = 1 .. Len(p) + Len(q)
  /\ \A i \in DOMAIN r :
       \/ i \in DOMAIN p /\ r[i] = p[i] /\ r[i] \in ToSet(p)
       \/ i > Len(p) /\ i - Len(p) \in DOMAIN q /\ r[i] = q[i - Len(p)] /\ r[i] \in ToSet(q)

LEMMA JoinedAt ==
  ASSUME NEW E, NEW p \in Seq(E), NEW q \in Seq(E)
  PROVE  FirstThen(p \o q, p, q)
<1> DEFINE r == p \o q
<1>1. /\ Len(p) \in Nat /\ Len(q) \in Nat
      /\ DOMAIN p = 1 .. Len(p) /\ DOMAIN q = 1 .. Len(q)
      /\ r \in Seq(E) /\ DOMAIN r = 1 .. Len(p) + Len(q)
      /\ \A i \in DOMAIN r : r[i] = IF i <= Len(p) THEN p[i] ELSE q[i - Len(p)]
  OBVIOUS
<1> HIDE DEF r
<1>2. ASSUME NEW i \in DOMAIN r
      PROVE  \/ i \in DOMAIN p /\ r[i] = p[i] /\ r[i] \in ToSet(p)
             \/ i > Len(p) /\ i - Len(p) \in DOMAIN q /\ r[i] = q[i - Len(p)] /\ r[i] \in ToSet(q)
  <2>1. CASE i <= Len(p)
    <3>1. i \in DOMAIN p /\ r[i] = p[i]
      BY <1>1, <2>1
    <3> QED
      BY <3>1 DEF ToSet
  <2>2. CASE ~(i <= Len(p))
    <3>1. i > Len(p) /\ i - Len(p) \in DOMAIN q /\ r[i] = q[i - Len(p)]
      BY <1>1, <2>2
    <3> QED
      BY <3>1 DEF ToSet
  <2> QED
    BY <2>1, <2>2
<1>3. FirstThen(r, p, q)
  BY <1>1, <1>2 DEF FirstThen
<1> QED
  BY <1>3 DEF r

LEMMA Joined ==
  ASSUME NEW E, NEW p \in Seq(E), NEW q \in Seq(E)
  PROVE  p \o q \in Seq(E) /\ ToSet(p \o q) = ToSet(p) \cup ToSet(q)
<1> DEFINE r == p \o q
<1>1. /\ Len(p) \in Nat /\ Len(q) \in Nat
      /\ DOMAIN p = 1 .. Len(p) /\ DOMAIN q = 1 .. Len(q)
      /\ r \in Seq(E) /\ DOMAIN r = 1 .. Len(p) + Len(q)
      /\ \A i \in DOMAIN r : r[i] = IF i <= Len(p) THEN p[i] ELSE q[i - Len(p)]
  OBVIOUS
<1>2. FirstThen(r, p, q)
  BY JoinedAt
<1> HIDE DEF r
<1>3. ToSet(r) \subseteq ToSet(p) \cup ToSet(q)
  BY <1>2 DEF ToSet, FirstThen
<1>4. ASSUME NEW i \in DOMAIN p PROVE p[i] \in ToSet(r)
  <2>1. i \in DOMAIN r /\ r[i] = p[i]
    BY <1>1
  <2> QED
    BY <2>1 DEF ToSet
<1>5. ASSUME NEW i \in DOMAIN q PROVE q[i] \in ToSet(r)
  <2>1. i + Len(p) \in DOMAIN r /\ ~(i + Len(p) <= Len(p)) /\ (i + Len(p)) - Len(p) = i
    BY <1>1
  <2>2. r[i + Len(p)] = q[i]
    BY <1>1, <2>1
  <2> QED
    BY <2>1, <2>2 DEF ToSet
<1>6. ToSet(p) \subseteq ToSet(r) /\ ToSet(q) \subseteq ToSet(r)
  BY <1>4, <1>5 DEF ToSet
<1>7. r \in Seq(E) /\ ToSet(r) = ToSet(p) \cup ToSet(q)
  BY <1>1, <1>3, <1>6
<1> QED
  BY <1>7 DEF r

\* Both in order, and the first ranked before the second.
LEMMA JoinedInOrder ==
  ASSUME NEW E, NEW p \in Seq(E), NEW q \in Seq(E), NEW s, Ranked(s, p), Ranked(s, q),
         \A a \in ToSet(p), b \in ToSet(q) : RankOf(s, a[1]) < RankOf(s, b[1])
  PROVE  Ranked(s, p \o q)
<1> DEFINE r == p \o q
<1>0. FirstThen(r, p, q)
  BY JoinedAt
<1> HIDE DEF r
<1>1. /\ Len(p) \in Nat /\ DOMAIN p = 1 .. Len(p) /\ DOMAIN q = 1 .. Len(q) /\ Len(q) \in Nat
      /\ DOMAIN r = 1 .. Len(p) + Len(q)
      /\ \A i \in DOMAIN r :
           \/ i \in DOMAIN p /\ r[i] = p[i] /\ r[i] \in ToSet(p)
           \/ i > Len(p) /\ i - Len(p) \in DOMAIN q /\ r[i] = q[i - Len(p)] /\ r[i] \in ToSet(q)
  BY <1>0 DEF FirstThen
<1>2. Ranked(s, r)
  <2> SUFFICES ASSUME NEW i \in DOMAIN r, NEW j \in DOMAIN r, i < j
               PROVE  RankOf(s, r[i][1]) < RankOf(s, r[j][1])
    BY DEF Ranked
  <2>1. CASE i \in DOMAIN p /\ j \in DOMAIN p /\ r[i] = p[i] /\ r[j] = p[j]
    BY <2>1 DEF Ranked
  <2>2. CASE r[i] \in ToSet(p) /\ r[j] \in ToSet(q)
    BY <2>2
  <2>3. CASE i > Len(p) /\ j > Len(p)
    <3>1. /\ i - Len(p) \in DOMAIN q /\ r[i] = q[i - Len(p)]
          /\ j - Len(p) \in DOMAIN q /\ r[j] = q[j - Len(p)]
      BY <1>1, <2>3
    <3>2. i - Len(p) < j - Len(p)
      BY <1>1
    <3> QED
      BY <3>1, <3>2 DEF Ranked
  <2>4. ~(i > Len(p) /\ j \in DOMAIN p)
    BY <1>1
  <2> QED
    BY <1>1, <2>1, <2>2, <2>3, <2>4
<1> QED
  BY <1>2 DEF r

\* A list in order has as many members as it is long.
LEMMA RankedLen ==
  ASSUME NEW E, NEW q \in Seq(E), NEW s, Ranked(s, q),
         \A m \in E : RankOf(s, m[1]) \in Nat
  PROVE  IsFiniteSet(ToSet(q)) /\ Cardinality(ToSet(q)) = Len(q)
<1>1. DOMAIN q = 1 .. Len(q) /\ Len(q) \in Nat /\ q \in [1 .. Len(q) -> E]
  OBVIOUS
<1>2. IsFiniteSet(1 .. Len(q)) /\ Cardinality(1 .. Len(q)) = Len(q)
  BY <1>1, Numbered
<1>3. \A i, j \in 1 .. Len(q) : q[i] = q[j] => i = j
  <2> SUFFICES ASSUME NEW i \in 1 .. Len(q), NEW j \in 1 .. Len(q), q[i] = q[j], i < j
               PROVE  FALSE
    BY <1>1
  <2>1. RankOf(s, q[i][1]) < RankOf(s, q[j][1]) /\ RankOf(s, q[i][1]) \in Nat
    BY <1>1 DEF Ranked
  <2> QED
    BY <2>1
<1>4. q \in Surjection(1 .. Len(q), ToSet(q)) /\ q \in Injection(1 .. Len(q), ToSet(q))
  <2>1. q \in [1 .. Len(q) -> ToSet(q)] /\ \A t \in ToSet(q) : \E i \in 1 .. Len(q) : q[i] = t
    BY <1>1 DEF ToSet
  <2> QED
    BY <1>1, <1>3, <2>1 DEF Surjection, Injection, IsInjective
<1> QED
  BY <1>2, <1>4, FS_Surjection

\* A finite set in some order.
LEMMA SetListed ==
  ASSUME NEW S, IsFiniteSet(S)
  PROVE  SetToSeq(S) \in Seq(S) /\ ToSet(SetToSeq(S)) = S /\ Len(SetToSeq(S)) = Cardinality(S)
<1> DEFINE n == Cardinality(S)
           q == SetToSeq(S)
<1>1. n \in Nat /\ ExistsBijection(1 .. n, S)
  BY FS_CardinalityType
<1>2. \E f \in [1 .. n -> S] : IsInjective(f)
  BY <1>1 DEF ExistsBijection, Bijection, Injection
<1>3. q \in [1 .. n -> S] /\ IsInjective(q)
  BY <1>2 DEF SetToSeq
<1> HIDE DEF q
<1>4. q \in Injection(1 .. n, S)
  BY <1>3 DEF Injection
<1>5. Cardinality(1 .. n) = n
  BY <1>1, Numbered
<1>6. q \in Surjection(1 .. n, S)
  BY <1>4, <1>5, FS_Injection
<1>7. q \in Seq(S) /\ Len(q) = n /\ DOMAIN q = 1 .. n
  BY <1>1, <1>3
<1>8. ToSet(q) = S
  BY <1>3, <1>6, <1>7 DEF ToSet, Surjection
<1> QED
  BY <1>7, <1>8 DEF q

\* What a context mentions: its steps, each with the letters it is under.
Mentioned(x) ==
  {<<a, {}>> : a \in ToSet(x.always)} \cup {<<x.selects[l], {l}>> : l \in DOMAIN x.selects}

LEMMA MentionsAre ==
  ASSUME NEW x, x.always \in Seq(ToSet(x.always)), IsFiniteSet(DOMAIN x.selects)
  PROVE  /\ Mentions(x) \in Seq(Mentioned(x))
         /\ ToSet(Mentions(x)) = Mentioned(x)
         /\ Len(Mentions(x)) = Len(x.always) + Cardinality(DOMAIN x.selects)
<1> DEFINE A == {<<a, {}>> : a \in ToSet(x.always)}
           D == {<<x.selects[l], {l}>> : l \in DOMAIN x.selects}
           first == [i \in DOMAIN x.always |-> <<x.always[i], {}>>]
           f == [l \in DOMAIN x.selects |-> <<x.selects[l], {l}>>]
<1>1. first \in Seq(A) /\ ToSet(first) = A /\ Len(first) = Len(x.always)
  <2>1. Len(x.always) \in Nat /\ DOMAIN x.always = 1 .. Len(x.always)
    OBVIOUS
  <2>2. \A i \in DOMAIN x.always : x.always[i] \in ToSet(x.always)
    BY DEF ToSet
  <2>3. first \in [1 .. Len(x.always) -> A]
    BY <2>1, <2>2
  <2>4. ToSet(first) = A
    <3>1. ToSet(first) = {<<x.always[i], {}>> : i \in DOMAIN x.always}
      BY DEF ToSet
    <3>2. A = {<<x.always[i], {}>> : i \in DOMAIN x.always}
      BY DEF ToSet
    <3> QED
      BY <3>1, <3>2
  <2> HIDE DEF first, A
  <2> QED
    BY <2>1, <2>3, <2>4
<1>2. IsFiniteSet(D) /\ Cardinality(D) = Cardinality(DOMAIN x.selects)
  <2>1. f \in [DOMAIN x.selects -> D] /\ \A m \in D : \E l \in DOMAIN x.selects : f[l] = m
    OBVIOUS
  <2>2. \A l, k \in DOMAIN x.selects : f[l] = f[k] => l = k
    <3> SUFFICES ASSUME NEW l \in DOMAIN x.selects, NEW k \in DOMAIN x.selects, f[l] = f[k]
                 PROVE  l = k
      OBVIOUS
    <3>1. f[l][2] = {l} /\ f[k][2] = {k}
      OBVIOUS
    <3> QED
      BY <3>1
  <2> HIDE DEF f, D
  <2>3. f \in Surjection(DOMAIN x.selects, D) /\ f \in Injection(DOMAIN x.selects, D)
    BY <2>1, <2>2 DEF Surjection, Injection, IsInjective
  <2> QED
    BY <2>3, FS_Surjection
<1> HIDE DEF first, D, A
<1>3. SetToSeq(D) \in Seq(D) /\ ToSet(SetToSeq(D)) = D /\ Len(SetToSeq(D)) = Cardinality(D)
  BY <1>2, SetListed
<1>4. Mentions(x) = first \o SetToSeq(D) /\ Mentioned(x) = A \cup D
  BY DEF Mentions, Mentioned, first, D, A
<1>5. first \in Seq(A \cup D) /\ SetToSeq(D) \in Seq(A \cup D)
  BY <1>1, <1>3
<1>6. /\ first \o SetToSeq(D) \in Seq(A \cup D)
      /\ ToSet(first \o SetToSeq(D)) = ToSet(first) \cup ToSet(SetToSeq(D))
  BY <1>5, Joined
<1>7. Len(first \o SetToSeq(D)) = Len(first) + Len(SetToSeq(D))
  BY <1>5
<1> QED
  BY <1>1, <1>2, <1>3, <1>4, <1>6, <1>7

\* A context that names each step once mentions it once.
LEMMA NamedApart ==
  ASSUME NEW x, x.always \in Seq(ToSet(x.always)), IsFiniteSet(DOMAIN x.selects), NamedOnce(x)
  PROVE  \A i, j \in DOMAIN Mentions(x) : Mentions(x)[i][1] = Mentions(x)[j][1] => i = j
<1> DEFINE M == Mentions(x)
           n == Len(M)
           f == [i \in 1 .. n |-> M[i][1]]
<1>1. /\ M \in Seq(Mentioned(x)) /\ ToSet(M) = Mentioned(x)
      /\ n = Len(x.always) + Cardinality(DOMAIN x.selects)
  BY MentionsAre
<1> HIDE DEF M
<1>2. n \in Nat /\ DOMAIN M = 1 .. n
  BY <1>1
<1>3. Runs(x) = {m[1] : m \in Mentioned(x)}
  <2>1. ASSUME NEW m \in Mentioned(x) PROVE m[1] \in Runs(x)
    BY DEF Mentioned, Runs, Range
  <2>2. ASSUME NEW a \in ToSet(x.always) PROVE \E m \in Mentioned(x) : m[1] = a
    <3>1. <<a, {}>> \in Mentioned(x) /\ <<a, {}>>[1] = a
      BY DEF Mentioned
    <3> QED
      BY <3>1
  <2>3. ASSUME NEW l \in DOMAIN x.selects PROVE \E m \in Mentioned(x) : m[1] = x.selects[l]
    <3>1. <<x.selects[l], {l}>> \in Mentioned(x) /\ <<x.selects[l], {l}>>[1] = x.selects[l]
      BY DEF Mentioned
    <3> QED
      BY <3>1
  <2> QED
    BY <2>1, <2>2, <2>3 DEF Runs, Range
<1>4. f \in Surjection(1 .. n, Runs(x))
  <2>1. ASSUME NEW i \in 1 .. n PROVE f[i] \in Runs(x)
    BY <1>1, <1>2, <1>3 DEF ToSet
  <2>2. ASSUME NEW t \in Runs(x) PROVE \E i \in 1 .. n : f[i] = t
    <3>1. PICK m \in Mentioned(x) : m[1] = t
      BY <1>3
    <3>2. PICK i \in DOMAIN M : M[i] = m
      BY <1>1 DEF ToSet
    <3> QED
      BY <1>2, <3>1, <3>2
  <2> QED
    BY <2>1, <2>2 DEF Surjection
<1>5. Cardinality(Runs(x)) = Cardinality(1 .. n) /\ IsFiniteSet(1 .. n)
  BY <1>1, <1>2, Numbered DEF NamedOnce
<1>6. f \in Injection(1 .. n, Runs(x))
  BY <1>4, <1>5, FS_Surjection
<1>7. \A i, j \in 1 .. n : f[i] = f[j] => i = j
  BY <1>6 DEF Injection, IsInjective
<1> QED
  BY <1>2, <1>7 DEF M

\* The mentions sorted by rank.
LEMMA SelectedAre ==
  ASSUME NEW s, PlanRead(s.plan), ValidPlan(s), NEW c \in DOMAIN s.plan.contexts,
         NamedOnce(s.plan.contexts[c])
  PROVE  /\ \A m \in Mentioned(s.plan.contexts[c]) :
              m[1] \in DOMAIN s.plan.steps /\ RankOf(s, m[1]) \in Nat
         /\ Selected(s, c) \in Seq(Mentioned(s.plan.contexts[c]))
         /\ ToSet(Selected(s, c)) = Mentioned(s.plan.contexts[c])
         /\ Ranked(s, Selected(s, c))
<1> DEFINE x == s.plan.contexts[c]
           M == Mentions(x)
           r == [i \in DOMAIN M |-> RankOf(s, M[i][1])]
           before == [i \in DOMAIN M |->
                        {j \in DOMAIN M : r[j] < r[i] \/ (r[j] = r[i] /\ j < i)}]
           q == Selected(s, c)
<1>1. x.always \in Seq(ToSet(x.always)) /\ IsFiniteSet(DOMAIN x.selects)
  BY DEF PlanRead
<1>2. Runs(x) \subseteq DOMAIN s.plan.steps
  BY DEF ValidPlan
<1>3. \A m \in Mentioned(x) : m[1] \in DOMAIN s.plan.steps /\ RankOf(s, m[1]) \in Nat
  <2> SUFFICES ASSUME NEW m \in Mentioned(x)
               PROVE  m[1] \in DOMAIN s.plan.steps /\ RankOf(s, m[1]) \in Nat
    OBVIOUS
  <2>1. m[1] \in Runs(x)
    BY DEF Mentioned, Runs, Range
  <2> QED
    BY <1>2, <2>1 DEF PlanRead, RankOf
<1>4. \A a, b \in DOMAIN s.plan.steps : RankOf(s, a) = RankOf(s, b) => a = b
  BY DEF ValidPlan, RankOf
<1>5. q = Picked(M, before)
  BY DEF Selected
<1>6. M \in Seq(Mentioned(x)) /\ ToSet(M) = Mentioned(x)
  BY <1>1, MentionsAre
<1>7. \A i, j \in DOMAIN M : M[i][1] = M[j][1] => i = j
  BY <1>1, NamedApart
<1> HIDE DEF x, M, q
<1>8. \A i \in DOMAIN M : /\ i \in Nat /\ r[i] \in Nat /\ r[i] = RankOf(s, M[i][1])
                         /\ M[i][1] \in DOMAIN s.plan.steps
  <2> SUFFICES ASSUME NEW i \in DOMAIN M
               PROVE  /\ i \in Nat /\ RankOf(s, M[i][1]) \in Nat
                      /\ M[i][1] \in DOMAIN s.plan.steps
    OBVIOUS
  <2>1. i \in Nat /\ M[i] \in Mentioned(x)
    BY <1>6
  <2> QED
    BY <1>3, <2>1
<1> HIDE DEF r
<1>9. Orders(before, DOMAIN M)
  <2>1. before \in [DOMAIN M -> SUBSET DOMAIN M]
    OBVIOUS
  <2>2. \A a \in DOMAIN M : a \notin before[a]
    BY <1>8
  <2>3. \A a, b \in DOMAIN M : a # b => a \in before[b] \/ b \in before[a]
    BY <1>8
  <2>4. \A a, b \in DOMAIN M : a \in before[b] => before[a] \subseteq before[b]
    BY <1>8
  <2> QED
    BY <2>1, <2>2, <2>3, <2>4 DEF Orders
<1>10. Arranges(q, Mentioned(x), M, DOMAIN M, before)
  <2> HIDE DEF before
  <2> QED
    BY <1>5, <1>6, <1>9, PickedAre
<1>11. q \in Seq(Mentioned(x)) /\ ToSet(q) = Mentioned(x)
  BY <1>6, <1>10 DEF Arranges, ToSet
<1>12. Ranked(s, q)
  <2> SUFFICES ASSUME NEW j \in DOMAIN q, NEW k \in DOMAIN q, j < k
               PROVE  RankOf(s, q[j][1]) < RankOf(s, q[k][1])
    BY DEF Ranked
  <2>1. PICK a \in DOMAIN M, b \in DOMAIN M : a \in before[b] /\ q[j] = M[a] /\ q[k] = M[b]
    BY <1>10 DEF Arranges
  <2>2. r[a] < r[b] \/ (r[a] = r[b] /\ a < b)
    BY <2>1
  <2>3. r[a] = r[b] => a = b
    BY <1>4, <1>7, <1>8
  <2>4. r[a] < r[b]
    BY <1>8, <2>2, <2>3
  <2> QED
    BY <1>8, <2>1, <2>4
<1> QED
  BY <1>3, <1>11, <1>12 DEF x, q

\* What is taken of a list in order is in order, and is what the flags allow.
LEMMA TakenAre ==
  ASSUME NEW E, NEW q \in Seq(E), NEW flags
  PROVE  /\ Taken(q, flags) \in Seq(E)
         /\ ToSet(Taken(q, flags)) = {m \in ToSet(q) : m[2] \subseteq flags}
         /\ \A s : Ranked(s, q) => Ranked(s, Taken(q, flags))
<1> DEFINE T == {m \in ToSet(q) : m[2] \subseteq flags}
<1>1. Taken(q, flags) = Filtered(q, T) /\ ToSet(q) \cap T = T
  BY DEF Taken
<1> HIDE DEF T
<1>2. /\ Filtered(q, T) \in Seq(E)
      /\ ToSet(Filtered(q, T)) = ToSet(q) \cap T
      /\ \A s : Ranked(s, q) => Ranked(s, Filtered(q, T))
  BY FilteredAre
<1> QED
  BY <1>1, <1>2 DEF T

\* A window between two ranks.
LEMMA BetweenAre ==
  ASSUME NEW s, NEW c, NEW E, Selected(s, c) \in Seq(E), Ranked(s, Selected(s, c)),
         NEW low, NEW high
  PROVE  /\ Between(s, c, low, high) \in Seq(E)
         /\ ToSet(Between(s, c, low, high)) =
              {m \in ToSet(Selected(s, c)) : low < RankOf(s, m[1]) /\ RankOf(s, m[1]) < high}
         /\ Ranked(s, Between(s, c, low, high))
<1> DEFINE q == Selected(s, c)
           T == {m \in ToSet(q) : low < RankOf(s, m[1]) /\ RankOf(s, m[1]) < high}
<1>1. Between(s, c, low, high) = Filtered(q, T) /\ ToSet(q) \cap T = T
  BY DEF Between
<1> HIDE DEF T
<1>2. /\ Filtered(q, T) \in Seq(E)
      /\ ToSet(Filtered(q, T)) = ToSet(q) \cap T
      /\ Ranked(s, Filtered(q, T))
  BY FilteredAre
<1> QED
  BY <1>1, <1>2 DEF T

\* A list in order, and one more that ranks after it.
LEMMA OneMore ==
  ASSUME NEW s, NEW E, NEW q \in Seq(E), Ranked(s, q), NEW e \in E,
         \A m \in ToSet(q) : RankOf(s, m[1]) < RankOf(s, e[1])
  PROVE  /\ q \o <<e>> \in Seq(E) /\ ToSet(q \o <<e>>) = ToSet(q) \cup {e}
         /\ Ranked(s, q \o <<e>>)
<1> DEFINE one == <<e>>
<1>1. one \in Seq(E) /\ DOMAIN one = {1} /\ one[1] = e
  OBVIOUS
<1> HIDE DEF one
<1>2. ToSet(one) = {e}
  BY <1>1 DEF ToSet
<1>3. Ranked(s, one)
  BY <1>1 DEF Ranked
<1>4. \A m \in ToSet(q), k \in ToSet(one) : RankOf(s, m[1]) < RankOf(s, k[1])
  BY <1>2
<1>5. q \o one \in Seq(E) /\ ToSet(q \o one) = ToSet(q) \cup ToSet(one) /\ Ranked(s, q \o one)
  BY <1>1, <1>3, <1>4, Joined, JoinedInOrder
<1> QED
  BY <1>2, <1>5 DEF one

\* The steps of a list: those its members name, in its order.
LEMMA NamesOf ==
  ASSUME NEW s, NEW E, NEW q \in Seq(E), Ranked(s, q), NEW p,
         p = [i \in DOMAIN q |-> q[i][1]]
  PROVE  /\ ToSet(p) = {m[1] : m \in ToSet(q)}
         /\ \A i, j \in DOMAIN p : i < j => RankOf(s, p[i]) < RankOf(s, p[j])
BY DEF ToSet, Ranked

\* What the mentions that the flags allow name.
LEMMA StepsNamed ==
  ASSUME NEW x, NEW given
  PROVE  {m[1] : m \in {m \in Mentioned(x) : m[2] \subseteq given}}
           = ToSet(x.always) \cup {x.selects[l] : l \in DOMAIN x.selects \cap given}
<1> DEFINE T == {m \in Mentioned(x) : m[2] \subseteq given}
<1>1. ASSUME NEW m \in T
      PROVE  m[1] \in ToSet(x.always) \cup {x.selects[l] : l \in DOMAIN x.selects \cap given}
  <2>1. CASE \E a \in ToSet(x.always) : m = <<a, {}>>
    BY <2>1
  <2>2. CASE \E l \in DOMAIN x.selects : m = <<x.selects[l], {l}>>
    BY <2>2
  <2> QED
    BY <2>1, <2>2 DEF Mentioned
<1>2. ASSUME NEW a \in ToSet(x.always) PROVE \E m \in T : m[1] = a
  <2>1. <<a, {}>> \in T /\ <<a, {}>>[1] = a
    BY DEF Mentioned
  <2> QED
    BY <2>1
<1>3. ASSUME NEW l \in DOMAIN x.selects \cap given PROVE \E m \in T : m[1] = x.selects[l]
  <2>1. <<x.selects[l], {l}>> \in T /\ <<x.selects[l], {l}>>[1] = x.selects[l]
    BY DEF Mentioned
  <2> QED
    BY <2>1
<1> HIDE DEF T
<1>4. {m[1] : m \in T} = ToSet(x.always) \cup {x.selects[l] : l \in DOMAIN x.selects \cap given}
  BY <1>1, <1>2, <1>3
<1> QED
  BY <1>4 DEF T

\* A context that builds is its two windows, its fetch between them and its
\* build at the end: the emitter has counted them.
LEMMA Windows ==
  ASSUME NEW s, NEW a \in Arms, PlanRead(s.plan), ValidPlan(s), PlanEmits(s),
         NamedOnce(s.plan.contexts[a.ctx]), Builds(s, a.ctx)
  PROVE  LET E == Mentioned(s.plan.contexts[a.ctx])
             f == <<"fetch", {}>>
             b == <<"build", {}>> IN
         /\ f \in E /\ b \in E /\ RankOf(s, "fetch") < RankOf(s, "build")
         /\ Pre(s, a.ctx) \in Seq(E) /\ Mid(s, a.ctx) \in Seq(E)
         /\ Ranked(s, Pre(s, a.ctx)) /\ Ranked(s, Mid(s, a.ctx))
         /\ E = ToSet(Pre(s, a.ctx)) \cup {f} \cup ToSet(Mid(s, a.ctx)) \cup {b}
         /\ \A m \in ToSet(Pre(s, a.ctx)) : RankOf(s, m[1]) < RankOf(s, "fetch")
         /\ \A m \in ToSet(Mid(s, a.ctx)) :
              RankOf(s, "fetch") < RankOf(s, m[1]) /\ RankOf(s, m[1]) < RankOf(s, "build")
<1> DEFINE c == a.ctx
           x == s.plan.contexts[c]
           E == Mentioned(x)
           f == <<"fetch", {}>>
           b == <<"build", {}>>
           all == Selected(s, c)
           pre == Pre(s, c)
           mid == Mid(s, c)
           fr == RankOf(s, "fetch")
           br == RankOf(s, "build")
<1>1. c \in DOMAIN s.plan.contexts /\ {"fetch", "build"} \subseteq DOMAIN s.plan.steps
  BY DEF PlanEmits, ArmEmits
<1>2. /\ Len(pre \o mid) + 2 = Len(all)
      /\ \A m \in ToSet(pre \o mid) : HasVariant(s, m[1])
  BY DEF PlanEmits, ArmEmits
<1>3. {"fetch", "build"} \subseteq ToSet(x.always)
  BY DEF NamedOnce, Builds
<1>4. f \in E /\ b \in E
  BY <1>3 DEF Mentioned
<1>5. /\ \A m \in E : m[1] \in DOMAIN s.plan.steps /\ RankOf(s, m[1]) \in Nat
      /\ all \in Seq(E) /\ ToSet(all) = E /\ Ranked(s, all)
  BY <1>1, SelectedAre
<1>6. fr \in Nat /\ br \in Nat
  BY <1>1 DEF PlanRead, RankOf
<1>7. fr # br
  <2>1. "fetch" # "build"
    OBVIOUS
  <2> QED
    BY <1>1, <2>1 DEF ValidPlan, RankOf
<1> HIDE DEF E, all, pre, mid, fr, br
<1>8. /\ pre \in Seq(E) /\ Ranked(s, pre)
      /\ ToSet(pre) = {m \in E : -1 < RankOf(s, m[1]) /\ RankOf(s, m[1]) < fr}
  BY <1>5, BetweenAre DEF Pre, pre, fr, all
<1>9. /\ mid \in Seq(E) /\ Ranked(s, mid)
      /\ ToSet(mid) = {m \in E : fr < RankOf(s, m[1]) /\ RankOf(s, m[1]) < br}
  BY <1>5, BetweenAre DEF Mid, mid, fr, br, all
<1>10. ToSet(pre \o mid) = ToSet(pre) \cup ToSet(mid) /\ Len(pre \o mid) = Len(pre) + Len(mid)
  <2>1. ToSet(pre \o mid) = ToSet(pre) \cup ToSet(mid)
    BY <1>8, <1>9, Joined
  <2>2. Len(pre \o mid) = Len(pre) + Len(mid)
    BY <1>8, <1>9
  <2> QED
    BY <2>1, <2>2
<1>11. fr < br
  <2> SUFFICES ASSUME br < fr PROVE FALSE
    BY <1>6, <1>7
  <2>1. b \in ToSet(pre)
    <3>1. RankOf(s, b[1]) = br
      BY DEF br
    <3>2. -1 < br
      BY <1>6
    <3> QED
      BY <1>4, <1>8, <3>1, <3>2
  <2>2. HasVariant(s, b[1])
    BY <1>2, <1>10, <2>1
  <2> QED
    BY <2>2 DEF HasVariant
<1>12. /\ f \notin ToSet(pre) /\ f \notin ToSet(mid) /\ b \notin ToSet(pre) /\ b \notin ToSet(mid)
       /\ f # b /\ ToSet(pre) \cap ToSet(mid) = {}
  <2>1. RankOf(s, f[1]) = fr /\ RankOf(s, b[1]) = br
    BY DEF fr, br
  <2>2. f # b
    OBVIOUS
  <2>3. \A m \in ToSet(pre) : RankOf(s, m[1]) \in Nat /\ RankOf(s, m[1]) < fr
    BY <1>5, <1>8
  <2>4. \A m \in ToSet(mid) : RankOf(s, m[1]) \in Nat /\ fr < RankOf(s, m[1]) /\ RankOf(s, m[1]) < br
    BY <1>5, <1>9
  <2>5. \A m \in ToSet(pre) : m \notin ToSet(mid)
    BY <1>6, <2>3, <2>4
  <2> HIDE DEF f, b
  <2> QED
    BY <1>6, <1>11, <2>1, <2>2, <2>3, <2>4, <2>5
<1>13. ToSet(pre) \cup {f} \cup ToSet(mid) \cup {b} = E
  <2> DEFINE P == ToSet(pre)
             D == ToSet(mid)
             W == ((P \cup D) \cup {f}) \cup {b}
  <2>1. /\ IsFiniteSet(P) /\ Cardinality(P) = Len(pre)
        /\ IsFiniteSet(D) /\ Cardinality(D) = Len(mid)
        /\ IsFiniteSet(E) /\ Cardinality(E) = Len(all)
    BY <1>5, <1>8, <1>9, RankedLen
  <2>2. P \cap D = {} /\ f \notin P /\ f \notin D /\ b \notin P /\ b \notin D /\ f # b
    BY <1>12
  <2>3. P \subseteq E /\ D \subseteq E
    BY <1>8, <1>9
  <2> HIDE DEF P, D, f, b
  <2>4. IsFiniteSet(P \cup D) /\ Cardinality(P \cup D) = Cardinality(P) + Cardinality(D)
    <3>1. IsFiniteSet(P \cup D)
          /\ Cardinality(P \cup D) = Cardinality(P) + Cardinality(D) - Cardinality(P \cap D)
      BY <2>1, FS_Union
    <3>2. Cardinality(P \cap D) = 0
      BY <2>2, FS_EmptySet
    <3>3. Cardinality(P) \in Nat /\ Cardinality(D) \in Nat
      BY <2>1, FS_CardinalityType
    <3> QED
      BY <3>1, <3>2, <3>3
  <2>5. /\ IsFiniteSet((P \cup D) \cup {f})
        /\ Cardinality((P \cup D) \cup {f}) = Cardinality(P \cup D) + 1
    <3>1. f \notin P \cup D
      BY <2>2
    <3> QED
      BY <2>4, <3>1, FS_AddElement
  <2>6. Cardinality(W) = Cardinality((P \cup D) \cup {f}) + 1
    <3>1. b \notin (P \cup D) \cup {f}
      BY <2>2
    <3> QED
      BY <2>5, <3>1, FS_AddElement
  <2>7. Cardinality(P) \in Nat /\ Cardinality(D) \in Nat /\ Cardinality(E) \in Nat
    BY <2>1, FS_CardinalityType
  <2>8. Cardinality(W) = Cardinality(E)
    BY <1>2, <1>10, <2>1, <2>4, <2>5, <2>6, <2>7
  <2>9. W \in SUBSET E
    BY <1>4, <2>3
  <2>10. W = E
    BY <2>1, <2>8, <2>9, FS_Subset
  <2> QED
    BY <2>10 DEF P, D
<1>14. /\ \A m \in ToSet(pre) : RankOf(s, m[1]) < fr
       /\ \A m \in ToSet(mid) : fr < RankOf(s, m[1]) /\ RankOf(s, m[1]) < br
  BY <1>8, <1>9
<1> QED
  BY <1>4, <1>8, <1>9, <1>11, <1>13, <1>14 DEF E, pre, mid, fr, br

\* The emitted plan of an arm is that of its context.
Follows(s, a, flags) ==
  LET x == s.plan.contexts[a.ctx]
      plan == Emitted(s, a, flags)
      letters == DOMAIN x.selects \cap Given(a, flags) IN
    /\ ToSet(plan) = ToSet(x.always) \cup {x.selects[l] : l \in letters}
    /\ \A i, j \in DOMAIN plan : i < j => RankOf(s, plan[i]) < RankOf(s, plan[j])

\* For every text: the plan the emitted code makes is the plan of the text.
LEMMA EmittedFollows ==
  ASSUME NEW s, PlanRead(s.plan), ValidPlan(s), PlanEmits(s)
  PROVE  Followed(s)
<1> SUFFICES ASSUME NEW a \in Arms, NEW flags \in SUBSET a.free,
                    NamedOnce(s.plan.contexts[a.ctx])
             PROVE  Follows(s, a, flags)
  BY DEF Followed, Follows
<1> DEFINE c == a.ctx
           x == s.plan.contexts[c]
           E == Mentioned(x)
           given == Given(a, flags)
           plan == Emitted(s, a, flags)
           f == <<"fetch", {}>>
           b == <<"build", {}>>
           first == Taken(Pre(s, c), given)
           second == Taken(Mid(s, c), given)
           chosen == {m \in E : m[2] \subseteq given}
<1>1. c \in DOMAIN s.plan.contexts
  BY DEF PlanEmits, ArmEmits
<1>2. Selected(s, c) \in Seq(E) /\ ToSet(Selected(s, c)) = E /\ Ranked(s, Selected(s, c))
  BY <1>1, SelectedAre
<1>3. ASSUME NEW q \in Seq(E), Ranked(s, q), ToSet(q) = chosen,
             plan = [i \in DOMAIN q |-> q[i][1]]
      PROVE  Follows(s, a, flags)
  <2>1. {m[1] : m \in chosen} = ToSet(x.always) \cup {x.selects[l] : l \in DOMAIN x.selects \cap given}
    BY StepsNamed
  <2> HIDE DEF plan, chosen, E
  <2>2. /\ ToSet(plan) = {m[1] : m \in ToSet(q)}
        /\ \A i, j \in DOMAIN plan : i < j => RankOf(s, plan[i]) < RankOf(s, plan[j])
    BY <1>3, NamesOf
  <2>3. /\ ToSet(plan) = ToSet(x.always) \cup {x.selects[l] : l \in DOMAIN x.selects \cap given}
        /\ \A i, j \in DOMAIN plan : i < j => RankOf(s, plan[i]) < RankOf(s, plan[j])
    BY <1>3, <2>1, <2>2
  <2> QED
    BY <2>3 DEF Follows, plan
<1>4. CASE Builds(s, c)
  <2> DEFINE q == (first \o <<f>>) \o (second \o <<b>>)
  <2>1. /\ f \in E /\ b \in E /\ RankOf(s, "fetch") < RankOf(s, "build")
        /\ Pre(s, c) \in Seq(E) /\ Mid(s, c) \in Seq(E)
        /\ Ranked(s, Pre(s, c)) /\ Ranked(s, Mid(s, c))
        /\ E = ToSet(Pre(s, c)) \cup {f} \cup ToSet(Mid(s, c)) \cup {b}
        /\ \A m \in ToSet(Pre(s, c)) : RankOf(s, m[1]) < RankOf(s, "fetch")
        /\ \A m \in ToSet(Mid(s, c)) :
             RankOf(s, "fetch") < RankOf(s, m[1]) /\ RankOf(s, m[1]) < RankOf(s, "build")
    BY <1>4, Windows
  <2>2. /\ first \in Seq(E) /\ Ranked(s, first)
        /\ ToSet(first) = {m \in ToSet(Pre(s, c)) : m[2] \subseteq given}
    BY <2>1, TakenAre
  <2>3. /\ second \in Seq(E) /\ Ranked(s, second)
        /\ ToSet(second) = {m \in ToSet(Mid(s, c)) : m[2] \subseteq given}
    BY <2>1, TakenAre
  <2>4. /\ \A m \in ToSet(first) : RankOf(s, m[1]) < RankOf(s, f[1])
        /\ \A m \in ToSet(second) : RankOf(s, m[1]) < RankOf(s, b[1])
    BY <2>1, <2>2, <2>3
  <2>5. /\ first \o <<f>> \in Seq(E) /\ ToSet(first \o <<f>>) = ToSet(first) \cup {f}
        /\ Ranked(s, first \o <<f>>)
    <3> HIDE DEF f, first, E
    <3> QED
      BY <2>1, <2>2, <2>4, OneMore
  <2>6. /\ second \o <<b>> \in Seq(E) /\ ToSet(second \o <<b>>) = ToSet(second) \cup {b}
        /\ Ranked(s, second \o <<b>>)
    <3> HIDE DEF b, second, E
    <3> QED
      BY <2>1, <2>3, <2>4, OneMore
  <2>7. /\ q \in Seq(E) /\ Ranked(s, q)
        /\ ToSet(q) = (ToSet(first) \cup {f}) \cup (ToSet(second) \cup {b})
    <3>1. \A m \in E : RankOf(s, m[1]) \in Nat
      BY <1>1, SelectedAre
    <3>2. RankOf(s, f[1]) = RankOf(s, "fetch") /\ RankOf(s, b[1]) = RankOf(s, "build")
      OBVIOUS
    <3>3. \A m \in ToSet(first \o <<f>>) : m \in E /\ (m = f \/ RankOf(s, m[1]) < RankOf(s, "fetch"))
      BY <2>1, <2>2, <2>5
    <3>4. \A m \in ToSet(second \o <<b>>) : m \in E /\ RankOf(s, "fetch") < RankOf(s, m[1])
      BY <2>1, <2>3, <2>6
    <3>5. RankOf(s, "fetch") \in Nat
      BY <2>1, <3>1, <3>2
    <3>6. \A m \in ToSet(first \o <<f>>), k \in ToSet(second \o <<b>>) :
            RankOf(s, m[1]) < RankOf(s, k[1])
      <4> SUFFICES ASSUME NEW m \in ToSet(first \o <<f>>), NEW k \in ToSet(second \o <<b>>)
                   PROVE  RankOf(s, m[1]) < RankOf(s, k[1])
        OBVIOUS
      <4>1. RankOf(s, m[1]) = RankOf(s, "fetch") \/ RankOf(s, m[1]) < RankOf(s, "fetch")
        BY <3>2, <3>3
      <4>2. RankOf(s, "fetch") < RankOf(s, k[1]) /\ k \in E /\ m \in E
        BY <3>3, <3>4
      <4>3. RankOf(s, m[1]) \in Nat /\ RankOf(s, k[1]) \in Nat
        BY <3>1, <4>2
      <4> QED
        BY <3>5, <4>1, <4>2, <4>3
    <3> DEFINE one == first \o <<f>>
               two == second \o <<b>>
    <3>7. one \in Seq(E) /\ Ranked(s, one) /\ two \in Seq(E) /\ Ranked(s, two)
      BY <2>5, <2>6
    <3>8. \A m \in ToSet(one), k \in ToSet(two) : RankOf(s, m[1]) < RankOf(s, k[1])
      BY <3>6
    <3>9. q = one \o two
      OBVIOUS
    <3> HIDE DEF one, two, q, E
    <3>10. q \in Seq(E) /\ Ranked(s, q) /\ ToSet(q) = ToSet(one) \cup ToSet(two)
      BY <3>7, <3>8, <3>9, Joined, JoinedInOrder
    <3> QED
      BY <2>5, <2>6, <3>10 DEF one, two
  <2>8. f[2] \subseteq given /\ b[2] \subseteq given
    OBVIOUS
  <2>9. ToSet(q) = chosen
    <3> HIDE DEF f, b, first, second, given, E
    <3>1. chosen = {m \in E : m[2] \subseteq given}
      OBVIOUS
    <3> QED
      BY <2>1, <2>2, <2>3, <2>7, <2>8, <3>1
  <2>10. plan = [i \in DOMAIN q |-> q[i][1]]
    <3> DEFINE long == first \o <<f>> \o second \o <<b>>
    <3>1. plan = [i \in DOMAIN long |-> long[i][1]]
      BY <1>4 DEF Emitted
    <3>2. long = q
      <4> HIDE DEF first, second, f, b, E
      <4> QED
        BY <2>2, <2>3, <2>4
    <3> HIDE DEF long, q
    <3> QED
      BY <3>1, <3>2
  <2> HIDE DEF q, plan
  <2> QED
    BY <1>3, <2>7, <2>9, <2>10
<1>5. CASE ~Builds(s, c)
  <2> DEFINE q == Taken(Selected(s, c), given)
  <2>1. q \in Seq(E) /\ Ranked(s, q) /\ ToSet(q) = chosen
    BY <1>2, TakenAre
  <2>2. plan = [i \in DOMAIN q |-> q[i][1]]
    BY <1>5 DEF Emitted
  <2> HIDE DEF q, plan
  <2> QED
    BY <1>3, <2>1, <2>2
<1> QED
  BY <1>4, <1>5

(***************************************************************************)
(* Theorems.                                                               *)
(***************************************************************************)
LEMMA Initial == Init => IInv
<1> SUFFICES ASSUME Init PROVE IInv
  OBVIOUS
<1>1. DocInv
  BY DocInitial DEF Init
<1>2. RunTypeOK
  <2>1. run \in Run /\ box \in Box
    BY IdleType DEF Init, RunInit
  <2> QED
    BY <2>1 DEF Init, RunInit, RunTypeOK, Run, Box
<1>3. TreeInv
  BY ShippedAssumption DEF Init, RunInit, Idle, TreeInv
<1>4. BoxInv /\ NothingLeft
  BY DEF Init, RunInit, Idle, NoBox, BoxInv, NothingLeft, Working
<1>5. TallyInv
  BY DEF Init, RunInit, Idle, TallyInv, Working, Begun, None
<1> QED
  BY <1>1, <1>2, <1>3, <1>4, <1>5 DEF IInv

LEMMA Step == IInv /\ [Next]_vars => IInv'
<1> SUFFICES ASSUME IInv, [Next]_vars PROVE IInv'
  OBVIOUS
<1>1. DocInv' /\ TreeInv'
  BY DocInvKept, TreeKept DEF IInv
<1>2. RunTypeOK'
  BY <1>1, RunTypeKept DEF IInv
<1>3. BoxInv' /\ NothingLeft'
  BY BoxKept DEF IInv
<1>4. TallyInv'
  BY <1>2, TallyKept DEF IInv
<1> QED
  BY <1>1, <1>2, <1>3, <1>4 DEF IInv

\* The inductive invariant holds of docgen, cargo, the authors and the test
\* runner together, whatever the texts are.
THEOREM Invariance == Spec => []IInv
<1>1. Init => IInv
  BY Initial
<1>2. IInv /\ [Next]_vars => IInv'
  BY Step
<1> QED
  BY <1>1, <1>2, PTL DEF Spec

\* docgen writes every file of one reading or, when it refuses, none.
THEOREM WholeReadings == Spec => []AllOrNothing
<1>1. IInv => AllOrNothing
  BY DEF IInv, DocInv
<1> QED
  BY <1>1, Invariance, PTL

\* For every text authors may write: the program built from it says to each
\* of its examples what the text says.
THEOREM ExamplesHold == Spec => []RulesGiveExamples
<1>1. IInv => RulesGiveExamples
  <2> SUFFICES ASSUME IInv PROVE RulesGiveExamples
    OBVIOUS
  <2>1. program.rules \in Emitting
    BY DEF IInv, DocInv
  <2>2. Valid(Specs[program.rules])
    BY <2>1, EmittingIsSound DEF Sound
  <2> QED
    BY <2>1, <2>2, AcceptedAnswers DEF RulesGiveExamples, Answering
<1> QED
  BY <1>1, Invariance, PTL

\* For every text authors may write: the plans of the program built from it
\* are those of the text, each step once, in the order of the ranks
\* (generate_plan_rs).
THEOREM PlansFollow == Spec => []PlanFollowsSpec
<1>1. IInv => PlanFollowsSpec
  <2> SUFFICES ASSUME IInv PROVE PlanFollowsSpec
    OBVIOUS
  <2>1. program.plan \in Emitting /\ program.plan \in DOMAIN Specs
    BY EmittingIsSound DEF IInv, DocInv
  <2>2. Valid(Specs[program.plan]) /\ PlanEmits(Specs[program.plan])
    BY <2>1, EmittingIsSound DEF Sound, Emitting
  <2>3. ValidPlan(Specs[program.plan]) /\ PlanRead(Specs[program.plan].plan)
    BY <2>1, <2>2, DocgenAssumption DEF Valid
  <2>4. Followed(Specs[program.plan])
    BY <2>2, <2>3, EmittedFollows
  <2> QED
    BY <2>1, <2>4 DEF PlanFollowsSpec, Following
<1> QED
  BY <1>1, Invariance, PTL

\* No case is run before the stub listens on the port that was reserved.
THEOREM OwnStub == Spec => []StubIsOurs
<1>1. IInv => StubIsOurs
  BY DEF IInv, BoxInv, StubIsOurs
<1> QED
  BY <1>1, Invariance, PTL

\* A run that ends of itself leaves no process, and no sandbox unaccounted.
THEOREM CleanEnd == Spec => []NothingLeft
<1>1. IInv => NothingLeft
  BY DEF IInv
<1> QED
  BY <1>1, Invariance, PTL

\* Status 0 of the runner is earned, for every text and every way to call it.
THEOREM GreenEarned == Spec => []GreenIsEarned
<1>1. IInv => GreenIsEarned
  BY DEF IInv, TallyInv, GreenIsEarned
<1> QED
  BY <1>1, Invariance, PTL

\* A run of the cases of cli.yaml, with --rebuild or of less than all of them,
\* on a program of that cli.yaml, is green when nothing but its cases gets in
\* the way, if each case by itself is (xtgeoip-tests).
THEOREM StaysGreen == ASSUME CasesStand(Shipped.spec) PROVE Spec => []RebuildKeepsGreen
<1> DEFINE Green == GreenInv(Shipped.spec)
<1>1. Init => Green
  BY DEF Init, RunInit, Idle, GreenInv
<1>2. IInv /\ IInv' /\ Green /\ [Next]_vars => Green'
  BY GreenKept DEF IInv
<1>3. Green => RebuildKeepsGreen
  BY DEF GreenInv, RebuildKeepsGreen
<1> QED
  BY <1>1, <1>2, <1>3, Invariance, PTL DEF Spec
=============================================================================
