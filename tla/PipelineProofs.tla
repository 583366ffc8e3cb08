---------------------------- MODULE PipelineProofs ----------------------------
(***************************************************************************)
(* Proofs about Pipeline, for any releases and any Keep: what a run with a *)
(* backup has destroyed is archived, a run that builds touches nothing     *)
(* before it has something to build from, no step is denied what the probe *)
(* found it may write, pruning keeps Keep releases, and no flag of an      *)
(* accepted invocation is without effect.                                  *)
(***************************************************************************)
EXTENDS Pipeline, FiniteSetTheorems, WellFoundedInduction, TLAPS

-----------------------------------------------------------------------------
(***************************************************************************)
(* Pruning a set of releases.                                              *)
(***************************************************************************)
Above(S, v) == {w \in S : w > v}

LEMMA Smallest ==
  ASSUME NEW N \in SUBSET Nat, N # {}
  PROVE  \E n \in N : \A k \in N : n <= k
<1> DEFINE R == OpToRel(<, Nat)
<1>1. IsWellFoundedOn(R, Nat)
  BY NatLessThanWellFounded
<1>2. \A k, n \in Nat : k < n => <<k, n>> \in R
  BY DEF OpToRel
<1> HIDE DEF R
<1>3. PICK n \in N : \A k \in N : <<k, n>> \notin R
  BY <1>1, WFMin
<1>4. ASSUME NEW k \in N PROVE n <= k
  <2>1. ~(k < n)
    BY <1>2, <1>3
  <2> QED
    BY <2>1
<1> QED
  BY <1>4

LEMMA AboveFinite ==
  ASSUME NEW S \in SUBSET Versions, NEW v
  PROVE  /\ IsFiniteSet(S) /\ IsFiniteSet(Above(S, v))
         /\ Cardinality(S) \in Nat /\ Cardinality(Above(S, v)) \in Nat
<1>1. IsFiniteSet(S)
  BY PipelineAssumption, FS_Subset
<1>2. IsFiniteSet(Above(S, v))
  BY <1>1, FS_Subset DEF Above
<1> QED
  BY <1>1, <1>2, FS_CardinalityType

\* Of two releases, the newer has fewer above it.
LEMMA AboveShrinks ==
  ASSUME NEW S \in SUBSET Versions, NEW v \in S, NEW w \in S, v < w
  PROVE  Cardinality(Above(S, w)) < Cardinality(Above(S, v))
<1>0. \A x \in S : x \in Nat
  BY PipelineAssumption
<1>1. Above(S, w) \subseteq Above(S, v) /\ w \in Above(S, v) /\ w \notin Above(S, w)
  BY <1>0 DEF Above
<1>2. /\ Cardinality(Above(S, w)) <= Cardinality(Above(S, v))
      /\ Cardinality(Above(S, w)) # Cardinality(Above(S, v))
  BY <1>1, AboveFinite, FS_Subset
<1> QED
  BY <1>2, AboveFinite

\* What is superseded has Keep releases above it that stay.
LEMMA SupersededLeavesKeep ==
  ASSUME NEW S \in SUBSET Versions, NEW v \in Superseded(S)
  PROVE  Cardinality(Above(S \ Superseded(S), v)) >= Keep
<1> DEFINE N == {Cardinality(Above(S, u)) : u \in Superseded(S)}
<1>1. N \subseteq Nat /\ N # {}
  BY AboveFinite DEF Superseded
<1>2. PICK n \in N : \A k \in N : n <= k
  BY <1>1, Smallest
<1>3. PICK m \in Superseded(S) : n = Cardinality(Above(S, m))
  BY <1>2
<1>4. m \in S /\ v \in S /\ Cardinality(Above(S, m)) >= Keep
  BY DEF Superseded, Above
<1>5. \A u \in Superseded(S) : ~(m < u)
  <2> SUFFICES ASSUME NEW u \in Superseded(S), m < u PROVE FALSE
    OBVIOUS
  <2>1. u \in S /\ Cardinality(Above(S, u)) < Cardinality(Above(S, m))
    BY <1>4, AboveShrinks DEF Superseded
  <2>2. Cardinality(Above(S, m)) <= Cardinality(Above(S, u))
    BY <1>2, <1>3
  <2> QED
    BY <2>1, <2>2, AboveFinite
<1>6. Above(S, m) \subseteq Above(S \ Superseded(S), v)
  <2>1. \A x \in S : x \in Nat
    BY PipelineAssumption
  <2>2. ~(m < v)
    BY <1>5
  <2> QED
    BY <1>4, <1>5, <2>1, <2>2 DEF Above
<1>7. Cardinality(Above(S, m)) <= Cardinality(Above(S \ Superseded(S), v))
  BY <1>6, AboveFinite, FS_Subset
<1> QED
  BY <1>4, <1>7, AboveFinite, PipelineAssumption

\* No more than Keep releases stay.
LEMMA AtMostKeepStay ==
  ASSUME NEW S \in SUBSET Versions
  PROVE  Cardinality(S \ Superseded(S)) <= Keep
<1> DEFINE T == S \ Superseded(S)
<1>0. Cardinality({}) = 0 /\ Keep \in Nat
  BY FS_EmptySet, PipelineAssumption
<1>1. CASE T = {}
  BY <1>0, <1>1, PipelineAssumption
<1>2. CASE T # {}
  <2>1. PICK t \in T : \A w \in T : t <= w
    BY <1>2, Smallest, PipelineAssumption
  <2>2. t \in S /\ ~(Cardinality(Above(S, t)) >= Keep)
    BY DEF Superseded, Above
  <2>3. T \subseteq Above(S, t) \cup {t} /\ t \notin Above(S, t)
    <3>1. \A x \in S : x \in Nat
      BY PipelineAssumption
    <3> QED
      BY <2>1, <2>2, <3>1 DEF Above
  <2>4. /\ IsFiniteSet(Above(S, t) \cup {t})
        /\ Cardinality(Above(S, t) \cup {t}) = Cardinality(Above(S, t)) + 1
    BY <2>3, AboveFinite, FS_AddElement
  <2>5. Cardinality(T) <= Cardinality(Above(S, t) \cup {t})
    BY <2>3, <2>4, FS_Subset
  <2>6. Cardinality(T) \in Nat
    BY AboveFinite
  <2> QED
    BY <1>0, <2>2, <2>4, <2>5, <2>6, AboveFinite
<1> QED
  BY <1>1, <1>2
-----------------------------------------------------------------------------
(***************************************************************************)
(* Plans.                                                                  *)
(***************************************************************************)
LEMMA Ranks ==
  /\ Rank["backup"] = 1 /\ Rank["prune_bin"] = 2 /\ Rank["fetch"] = 3
  /\ Rank["clean"] = 4 /\ Rank["prune_csv"] = 5 /\ Rank["build"] = 6
BY DEF Rank, Ops

\* A plan that builds fetches first, and the build is its last step.
LEMMA PlanShape ==
  ASSUME NEW c \in Contexts, NEW flags \in SUBSET Flags
  PROVE  /\ Plan(c, flags) \subseteq Ops
         /\ Plan(c, flags) # {}
         /\ "build" \in Plan(c, flags) => "fetch" \in Plan(c, flags)
<1>1. CASE c = "top"
  BY <1>1 DEF Plan, TopLevelPlan, If, Ops
<1>2. CASE c = "build"
  BY <1>2 DEF Plan, BuildPlan, If, Ops
<1>3. CASE c = "fetch"
  BY <1>3 DEF Plan, FetchPlan, If, Ops
<1>4. CASE c = "run"
  BY <1>4 DEF Plan, RunPlan, If, Ops
<1> QED
  BY <1>1, <1>2, <1>3, <1>4 DEF Contexts

LEMMA OursShape ==
  ASSUME TypeOK
  PROVE  Ours \subseteq Ops /\ ("build" \in Ours => "fetch" \in Ours)
<1>1. run.ctx \in Contexts /\ run.flags \in SUBSET Flags
  BY DEF TypeOK
<1> QED
  BY <1>1, PlanShape DEF Ours

\* At a step of a run, the steps before it are finished and the steps after
\* it are not.
LEMMA AtStep ==
  ASSUME TypeOK, RunInv, NEW op, At(op)
  PROVE  /\ outcome = "running" /\ op \in Ours /\ op \in Ops
         /\ \A o \in Ours : Rank[o] < Rank[op] => Finished(o)
         /\ \A o \in Ops : Rank[o] > Rank[op] => ~Finished(o)
         /\ ~Finished(op)
<1>1. outcome = "running" /\ op \in todo /\ todo \subseteq Ours /\ Ours \subseteq Ops
  BY OursShape DEF At, RunInv
<1>2. \A o \in Ops : Rank[o] \in Nat
  BY Ranks DEF Ops
<1>3. ASSUME NEW o \in Ours, Rank[o] < Rank[op] PROVE Finished(o)
  <2>1. o \notin todo
    BY <1>1, <1>2, <1>3 DEF At
  <2> QED
    BY <1>1, <2>1 DEF Finished
<1>4. ASSUME NEW o \in Ops, Rank[o] > Rank[op] PROVE ~Finished(o)
  <2>1. o \in Ours \ todo => Rank[o] < Rank[op]
    BY <1>1 DEF RunInv
  <2> QED
    BY <1>1, <1>2, <1>4, <2>1 DEF Finished
<1> QED
  BY <1>1, <1>3, <1>4 DEF Finished

\* A step that is done adds itself to what is finished.
LEMMA DidStep ==
  ASSUME TypeOK, RunInv, NEW op, Did(op)
  PROVE  /\ At(op) /\ RunInv'
         /\ run' = run /\ writable' = writable /\ before' = before /\ Ours' = Ours
         /\ todo' \subseteq Ops /\ outcome' \in {"running", "done"}
         /\ outcome' = "done" => todo = {op}
         /\ outcome' = "done" /\ op # "build" => "build" \notin Ours
         /\ op = "build" => outcome' = "done"
         /\ \A o \in Ops : Finished(o)' <=> Finished(o) \/ o = op
<1>1. /\ At(op) /\ todo' = todo \ {op} /\ outcome' = IF todo = {op} THEN "done" ELSE "running"
      /\ run' = run /\ writable' = writable /\ before' = before
  BY DEF Did, context
<1>2. outcome = "running" /\ op \in Ours /\ todo \subseteq Ours /\ op \in todo /\ Ours \subseteq Ops
  BY <1>1, AtStep, OursShape DEF At, RunInv
<1>3. Ours' = Ours
  BY <1>1 DEF Ours
<1>4. \A o \in Ops : Finished(o)' <=> Finished(o) \/ o = op
  BY <1>1, <1>2, <1>3 DEF Finished
<1>5. RunInv'
  <2>1. CASE todo = {op}
    BY <1>1, <2>1 DEF RunInv
  <2>2. CASE todo # {op}
    <3>1. outcome' = "running" /\ todo' # {} /\ todo' \subseteq Ours'
      BY <1>1, <1>2, <1>3, <2>2
    <3>2. Accepted(run.ctx, run.flags)' /\ (DirsWritten(run.ctx, run.flags) \subseteq writable)'
      BY <1>1, <1>2 DEF RunInv
    <3>3. ASSUME NEW o \in todo', NEW d \in Ours' \ todo' PROVE Rank[d] < Rank[o]
      <4>1. CASE d \in todo
        <5>1. d = op /\ o \in todo /\ o # op
          BY <1>1, <1>3, <4>1
        <5>2. Rank[op] <= Rank[o] /\ op \in Ops /\ o \in Ops
          BY <1>1, <1>2, <5>1 DEF At
        <5>3. Rank[op] # Rank[o]
          BY <5>1, <5>2, Ranks DEF Ops
        <5> QED
          BY <5>1, <5>2, <5>3, Ranks DEF Ops
      <4>2. CASE d \notin todo
        BY <1>1, <1>2, <1>3, <4>2 DEF RunInv
      <4> QED
        BY <4>1, <4>2
    <3> QED
      BY <3>1, <3>2, <3>3 DEF RunInv
  <2> QED
    BY <2>1, <2>2
<1>6. ASSUME op # "build", "build" \in Ours PROVE outcome' # "done"
  <2>1. op \in Ops /\ op \in Ours /\ "build" \in Ops
    BY <1>2, <1>6
  <2>2. Rank["build"] > Rank[op]
    BY <1>6, <2>1, Ranks DEF Ops
  <2>3. "build" \in todo
    BY <1>1, <1>2, <1>6, <2>1, <2>2, AtStep DEF Finished
  <2> QED
    BY <1>1, <1>6, <2>3
<1>7. ASSUME op = "build" PROVE outcome' = "done"
  <2>1. \A o \in todo : o \in Ops /\ Rank["build"] <= Rank[o]
    BY <1>1, <1>2, <1>7 DEF At
  <2>2. \A o \in todo : o = "build"
    BY <2>1, Ranks DEF Ops
  <2> QED
    BY <1>1, <1>2, <1>7, <2>2
<1> QED
  BY <1>1, <1>2, <1>3, <1>4, <1>5, <1>6, <1>7

\* A step that stops ends the run.
LEMMA StoppedStep ==
  ASSUME TypeOK, RunInv, NEW op, NEW how \in {"failed", "killed"}, Stopped(op, how)
  PROVE  /\ At(op) /\ RunInv'
         /\ run' = run /\ writable' = writable /\ before' = before /\ Ours' = Ours
         /\ todo' = {} /\ outcome' = how
         /\ \A o : ~Finished(o)'
<1>1. At(op) /\ todo' = {} /\ outcome' = how /\ run' = run /\ writable' = writable /\ before' = before
  BY DEF Stopped, context
<1> QED
  BY <1>1 DEF Ours, RunInv, Finished

-----------------------------------------------------------------------------
(***************************************************************************)
(* Every step keeps the invariant.                                         *)
(***************************************************************************)
LEMMA Types ==
  ASSUME TypeOK
  PROVE  /\ BinVersions \subseteq Versions
         /\ CanBackup /\ Named => BackupName \in BinNames
         /\ Built \in Databases /\ Empty(Absent) \in Databases /\ Debris(Absent) \in Databases
         /\ \A v \in {db.pointer, Absent} : Empty(v) \in Databases /\ Debris(v) \in Databases
<1>1. \A n \in BinNames : n[2] \in Versions \cup {Absent}
  BY DEF BinNames
<1>2. BinVersions \subseteq Versions
  BY <1>1 DEF TypeOK, BinVersions
<1>3. db.pointer \in Versions \cup {Absent} /\ fetched \in Versions \cup {Absent}
  BY DEF TypeOK, Databases
<1>4. ASSUME Forced(run.flags) PROVE BackupName \in BinNames
  BY <1>3, <1>4 DEF BinNames, BackupName
<1>5. ASSUME ~Forced(run.flags), CanBackup, Named PROVE BackupName \in BinNames
  BY <1>3, <1>5 DEF BinNames, BackupName, CanBackup, Named
<1>6. Built \in Databases
  BY <1>3 DEF Built, Database, Databases
<1>7. \A v \in {db.pointer, Absent} : Empty(v) \in Databases /\ Debris(v) \in Databases
  BY <1>3 DEF Empty, Debris, Databases
<1> QED
  BY <1>2, <1>4, <1>5, <1>6, <1>7

\* Before the clean and the build the output directory is as the run found it.
LEMMA StillBefore ==
  ASSUME TypeOK, RunInv, StepInv, NEW op \in Ops \ {"prune_csv", "build"}, At(op)
  PROVE  db = before
<1>1. op = "clean" \/ Rank["clean"] > Rank[op]
  BY Ranks DEF Ops
<1>2. "clean" \in Ops /\ ~Finished("clean")
  BY <1>1, AtStep DEF Ops
<1> QED
  BY <1>2, AtStep DEF StepInv

\* An invocation that does nothing, or has ended, has nothing to keep.
LEMMA Quiet ==
  ASSUME outcome' \notin {"running", "done", "failed", "killed"}, todo' = {}
  PROVE  RunInv' /\ StepInv' /\ Secured' /\ FetchedFirst' /\ BuiltIsFetched'
BY DEF RunInv, StepInv, Secured, FetchedFirst, BuiltIsFetched, Finished, Ran

LEMMA RefuseKeeps ==
  ASSUME IInv, NEW c \in Contexts, NEW flags \in SUBSET Flags, Refuse(c, flags)
  PROVE  IInv'
<1>1. outcome' \in {"refused", "help", "unsupported"}
  BY DEF Refuse, Accepted, Outcome
<1>2. TypeOK' /\ Named'
  BY <1>1 DEF IInv, TypeOK, Named, Refuse, Invoke, places
<1> QED
  BY <1>1, <1>2, Quiet DEF IInv, Refuse

LEMMA UnwritableKeeps ==
  ASSUME IInv, NEW c \in Contexts, NEW flags \in SUBSET Flags, NEW w \in SUBSET Dirs,
         Unwritable(c, flags, w)
  PROVE  IInv'
<1>1. TypeOK' /\ Named'
  BY DEF IInv, TypeOK, Named, Unwritable, Invoke, places
<1> QED
  BY <1>1, Quiet DEF IInv, Unwritable

LEMMA BeginKeeps ==
  ASSUME IInv, NEW c \in Contexts, NEW flags \in SUBSET Flags, NEW w \in SUBSET Dirs,
         Begin(c, flags, w)
  PROVE  IInv'
<1>1. /\ outcome' = "running" /\ db' = db /\ before' = db
      /\ run'.ctx = c /\ run'.flags = flags /\ writable' = w
      /\ todo' = Plan(c, flags) /\ Ours' = Plan(c, flags)
  BY DEF Begin, Invoke, places, Ours
<1>2. Plan(c, flags) \subseteq Ops /\ Plan(c, flags) # {}
  BY PlanShape
<1>3. TypeOK' /\ Named'
  BY <1>1, <1>2 DEF IInv, TypeOK, Named, Begin, Invoke, places
<1>4. RunInv'
  BY <1>1, <1>2 DEF RunInv, Begin
<1>5. \A o \in Ops : ~Finished(o)'
  BY <1>1 DEF Finished
<1>6. StepInv'
  BY <1>1, <1>5 DEF StepInv, Ops
<1>7. Secured' /\ FetchedFirst' /\ BuiltIsFetched'
  BY <1>1 DEF Secured, FetchedFirst, BuiltIsFetched
<1> QED
  BY <1>3, <1>4, <1>6, <1>7 DEF IInv

LEMMA ExitKeeps ==
  ASSUME IInv, Exit
  PROVE  IInv'
<1>1. todo' = {} /\ outcome' = "none"
  BY DEF IInv, RunInv, Exit, places
<1>2. TypeOK' /\ Named'
  <2>1. Empty(Absent) \in Databases
    BY Types DEF IInv
  <2>2. "top" \in Contexts /\ {} \in SUBSET Flags
    BY DEF Contexts
  <2> QED
    BY <2>1, <2>2 DEF IInv, TypeOK, Named, Exit, places
<1> QED
  BY <1>1, <1>2, Quiet DEF IInv

LEMMA BackupKeeps ==
  ASSUME IInv, Backup
  PROVE  IInv'
<1>1. /\ CanBackup /\ bin' = bin \cup {BackupName} /\ copy' = BackupName
      /\ csv' = csv /\ db' = db /\ fetched' = fetched /\ Did("backup") /\ "backup" \in Ops
  BY DEF Backup, Ops
<1>2. At("backup") /\ db = before
  BY <1>1, DidStep, StillBefore DEF IInv, Ops
<1>3. TypeOK' /\ Named'
  BY <1>1, DidStep, Types DEF IInv, TypeOK, Named, Did, context
<1>4. Rank["backup"] < Rank["prune_bin"] /\ ~Finished("prune_bin")
  BY <1>2, AtStep, Ranks DEF IInv, Ops
<1>5. StepInv'
  <2>1. \A o \in Ops : Finished(o)' <=> Finished(o) \/ o = "backup"
    BY <1>1, DidStep DEF IInv
  <2>2. (db = before)'
    BY <1>1, <1>2, DidStep DEF IInv
  <2>3. (copy \in bin)'
    BY <1>1
  <2> QED
    BY <1>1, <1>4, <2>1, <2>2, <2>3 DEF IInv, StepInv, Ops
<1>6. (db = before)' /\ (outcome' = "done" => "build" \notin Ours')
  BY <1>1, <1>2, DidStep DEF IInv
<1>7. Secured' /\ FetchedFirst' /\ BuiltIsFetched'
  BY <1>6 DEF Secured, FetchedFirst, BuiltIsFetched
<1> QED
  BY <1>1, <1>3, <1>5, <1>7, DidStep DEF IInv

LEMMA PruneBinKeeps ==
  ASSUME IInv, PruneBin
  PROVE  IInv'
<1>1. /\ bin' = bin \ DoomedBin /\ Did("prune_bin") /\ "prune_bin" \in Ops
      /\ csv' = csv /\ db' = db /\ fetched' = fetched /\ copy' = copy
  BY DEF PruneBin, Ops
<1>2. At("prune_bin") /\ db = before /\ BinVersions \subseteq Versions
  BY <1>1, DidStep, StillBefore, Types DEF IInv, Ops
<1>3. TypeOK' /\ Named'
  BY <1>1, DidStep DEF IInv, TypeOK, Named
<1>4. BinVersions' = BinVersions \ Superseded(BinVersions)
  BY <1>1 DEF BinVersions, DoomedBin
<1>5. Cardinality(BinVersions') <= Keep
  BY <1>2, <1>4, AtMostKeepStay
<1>6. \A o \in Ops : Finished(o)' <=> Finished(o) \/ o = "prune_bin"
  BY <1>1, DidStep DEF IInv
<1>7. (db = before)' /\ (outcome' = "done" => "build" \notin Ours')
  BY <1>1, <1>2, DidStep DEF IInv
<1>8. ASSUME Finished("backup")
      PROVE  \/ copy' \in bin'
             \/ copy' # <<>> /\ Cardinality({v \in BinVersions' : v > copy'[2]}) >= Keep
  <2>1. outcome = "running" /\ ~Finished("prune_bin")
    BY <1>2, AtStep DEF IInv
  <2>2. copy \in bin
    BY <1>8, <2>1 DEF IInv, StepInv
  <2>3. CASE copy \in DoomedBin
    <3>1. copy[2] \in Superseded(BinVersions) /\ copy \in BinNames
      BY <2>3 DEF DoomedBin, IInv, TypeOK
    <3>2. copy # <<>>
      BY <3>1 DEF BinNames
    <3>3. Cardinality(Above(BinVersions', copy[2])) >= Keep
      BY <1>2, <1>4, <3>1, SupersededLeavesKeep
    <3> QED
      BY <1>1, <3>2, <3>3 DEF Above
  <2>4. CASE copy \notin DoomedBin
    BY <1>1, <2>2, <2>4
  <2> QED
    BY <2>3, <2>4
<1>9. StepInv'
  BY <1>1, <1>5, <1>6, <1>7, <1>8 DEF IInv, StepInv, Ops
<1>10. Secured' /\ FetchedFirst' /\ BuiltIsFetched'
  BY <1>7 DEF Secured, FetchedFirst, BuiltIsFetched
<1> QED
  BY <1>1, <1>3, <1>9, <1>10, DidStep DEF IInv

LEMMA PruneCsvKeeps ==
  ASSUME IInv, PruneCsv
  PROVE  IInv'
<1>1. /\ csv' = csv \ Superseded(csv) /\ Did("prune_csv") /\ "prune_csv" \in Ops
      /\ bin' = bin /\ db' = db /\ fetched' = fetched /\ copy' = copy
  BY DEF PruneCsv, Ops
<1>2. outcome = "running" /\ csv \subseteq Versions
  BY <1>1, DidStep, AtStep DEF IInv, TypeOK
<1>3. TypeOK' /\ Named'
  BY <1>1, DidStep DEF IInv, TypeOK, Named
<1>4. Cardinality(csv') <= Keep /\ BinVersions' = BinVersions
  BY <1>1, <1>2, AtMostKeepStay DEF BinVersions
<1>5. \A o \in Ops : Finished(o)' <=> Finished(o) \/ o = "prune_csv"
  BY <1>1, DidStep DEF IInv
<1>6. /\ before' = before /\ Ours' = Ours
      /\ outcome' = "done" => "build" \notin Ours
  BY <1>1, DidStep DEF IInv
<1>7. StepInv'
  BY <1>1, <1>2, <1>4, <1>5, <1>6 DEF IInv, StepInv, Ops
<1>8. Secured' /\ FetchedFirst' /\ BuiltIsFetched'
  BY <1>1, <1>2, <1>4, <1>6 DEF IInv, Secured, FetchedFirst, BuiltIsFetched, Ran
<1> QED
  BY <1>1, <1>3, <1>7, <1>8, DidStep DEF IInv

LEMMA FetchKeeps ==
  ASSUME IInv, NEW v \in Versions, FetchRemote(v) \/ FetchLocal(v)
  PROVE  IInv'
<1>1. /\ csv' \in {csv, csv \cup {v}} /\ Did("fetch") /\ "fetch" \in Ops
      /\ bin' = bin /\ db' = db /\ fetched' = v /\ copy' = copy
  BY DEF FetchRemote, FetchLocal, Ops
<1>2. outcome = "running" /\ At("fetch") /\ db = before
  BY <1>1, DidStep, AtStep, StillBefore DEF IInv, Ops
<1>3. TypeOK' /\ Named'
  BY <1>1, DidStep DEF IInv, TypeOK, Named
<1>4. ~Finished("prune_csv")
  BY <1>2, AtStep, Ranks DEF IInv, Ops
<1>5. BinVersions' = BinVersions
  BY <1>1 DEF BinVersions
<1>6. \A o \in Ops : Finished(o)' <=> Finished(o) \/ o = "fetch"
  BY <1>1, DidStep DEF IInv
<1>7. (db = before)' /\ (outcome' = "done" => "build" \notin Ours')
  BY <1>1, <1>2, DidStep DEF IInv
<1>8. StepInv'
  BY <1>1, <1>2, <1>4, <1>5, <1>6, <1>7 DEF IInv, StepInv, Ops
<1>9. Secured' /\ FetchedFirst' /\ BuiltIsFetched'
  BY <1>7 DEF Secured, FetchedFirst, BuiltIsFetched
<1> QED
  BY <1>1, <1>3, <1>8, <1>9, DidStep DEF IInv

\* By the time of the clean and the build, the backup has been made and the
\* archive is there.
LEMMA Earned ==
  ASSUME IInv, NEW op \in {"clean", "build"}, At(op)
  PROVE  /\ "backup" \in Ours =>
              \/ copy \in bin
              \/ /\ "prune_bin" \in Ours /\ copy # <<>>
                 /\ Cardinality({v \in BinVersions : v > copy[2]}) >= Keep
         /\ "build" \in Ours => fetched \in Versions
<1>1. outcome = "running" /\ Rank["backup"] < Rank[op] /\ Rank["fetch"] < Rank[op]
  BY AtStep, Ranks DEF IInv
<1>2. "backup" \in Ours => Finished("backup")
  BY <1>1, AtStep DEF IInv
<1>3. "build" \in Ours => Finished("fetch")
  BY <1>1, AtStep, OursShape DEF IInv
<1> QED
  BY <1>1, <1>2, <1>3 DEF IInv, StepInv, Finished

LEMMA CleanKeeps ==
  ASSUME IInv, Clean
  PROVE  IInv'
<1>1. /\ db' \in {Empty(Absent), Debris(Absent)} /\ Did("clean") /\ "clean" \in Ops
      /\ bin' = bin /\ csv' = csv /\ fetched' = fetched /\ copy' = copy
  BY DEF Clean, Ops
<1>2. outcome = "running" /\ At("clean")
  BY <1>1, DidStep, AtStep DEF IInv
<1>3. ~db'.verifies /\ db' \in Databases
  <2>1. db' \in Databases
    BY <1>1, Types DEF IInv
  <2>2. ~db'.verifies
    BY <1>1 DEF Empty, Debris
  <2> QED
    BY <2>1, <2>2
<1>4. TypeOK' /\ Named'
  BY <1>1, <1>3, DidStep DEF IInv, TypeOK, Named
<1>5. BinVersions' = BinVersions
  BY <1>1 DEF BinVersions
<1>6. \A o \in Ops : Finished(o)' <=> Finished(o) \/ o = "clean"
  BY <1>1, DidStep DEF IInv
<1>7. Ours' = Ours /\ (outcome' = "done" => "build" \notin Ours')
  BY <1>1, DidStep DEF IInv
<1>8. StepInv'
  BY <1>1, <1>2, <1>5, <1>6 DEF IInv, StepInv, Ops
<1>9. Secured' /\ FetchedFirst' /\ BuiltIsFetched'
  BY <1>1, <1>2, <1>5, <1>7, Earned, PipelineAssumption
     DEF Secured, FetchedFirst, BuiltIsFetched
<1> QED
  BY <1>1, <1>4, <1>8, <1>9, DidStep DEF IInv

LEMMA BuildKeeps ==
  ASSUME IInv, Build
  PROVE  IInv'
<1>1. /\ db' = Built /\ Did("build") /\ "build" \in Ops
      /\ bin' = bin /\ csv' = csv /\ fetched' = fetched /\ copy' = copy
  BY DEF Build, Ops
<1>2. outcome = "running" /\ At("build") /\ "build" \in Ours
  BY <1>1, DidStep, AtStep DEF IInv
<1>3. fetched \in Versions /\ fetched # Absent
  BY <1>2, Earned, PipelineAssumption
<1>4. db' \in Databases /\ db'.pointer = fetched
  BY <1>1, Types DEF IInv, Built, Database
<1>5. TypeOK' /\ Named'
  BY <1>1, <1>3, <1>4, DidStep DEF IInv, TypeOK, Named
<1>6. BinVersions' = BinVersions
  BY <1>1 DEF BinVersions
<1>7. \A o \in Ops : Finished(o)' <=> Finished(o) \/ o = "build"
  BY <1>1, DidStep DEF IInv
<1>8. Ours' = Ours /\ outcome' = "done" /\ Built' = Built
  BY <1>1, DidStep DEF IInv, Built
<1>9. StepInv'
  BY <1>1, <1>2, <1>6, <1>7, <1>8 DEF IInv, StepInv, Ops
<1>10. Secured' /\ FetchedFirst' /\ BuiltIsFetched'
  BY <1>1, <1>2, <1>3, <1>6, <1>8, Earned DEF Secured, FetchedFirst, BuiltIsFetched
<1> QED
  BY <1>1, <1>5, <1>9, <1>10, DidStep DEF IInv

-----------------------------------------------------------------------------
(***************************************************************************)
(* So does a step that stops short.                                        *)
(***************************************************************************)
\* A run that has stopped has only what it did to the directories to answer for.
LEMMA StoppedKeeps ==
  ASSUME IInv, NEW op, NEW how \in {"failed", "killed"}, Stopped(op, how),
         TypeOK', Named', Secured', FetchedFirst'
  PROVE  IInv'
<1>1. RunInv' /\ outcome' = how /\ \A o : ~Finished(o)'
  BY StoppedStep DEF IInv
<1>2. StepInv' /\ BuiltIsFetched'
  BY <1>1 DEF StepInv, BuiltIsFetched
<1> QED
  BY <1>1, <1>2 DEF IInv

\* One that stops before the clean and the build leaves the database alone.
LEMMA StoppedEarly ==
  ASSUME IInv, NEW op \in Ops \ {"prune_csv", "build"}, NEW how \in {"failed", "killed"},
         Stopped(op, how), db' = db, TypeOK'
  PROVE  IInv'
<1>1. (db = before)'
  BY StoppedStep, StillBefore DEF IInv
<1>2. Named' /\ Secured' /\ FetchedFirst'
  BY <1>1 DEF IInv, Named, Secured, FetchedFirst
<1> QED
  BY <1>2, StoppedKeeps

LEMMA BackupStopsKeeps ==
  ASSUME IInv, NEW how \in {"failed", "killed"}, BackupStops(how)
  PROVE  IInv'
<1>1. /\ bin' = bin \/ (CanBackup /\ bin' = bin \cup {BackupName})
      /\ Stopped("backup", how) /\ "backup" \in Ops
      /\ csv' = csv /\ db' = db /\ fetched' = fetched /\ copy' = copy
  BY DEF BackupStops, Ops
<1>2. bin' \subseteq BinNames
  BY <1>1, Types DEF IInv, TypeOK
<1>3. TypeOK'
  BY <1>1, <1>2, StoppedStep DEF IInv, TypeOK
<1> QED
  BY <1>1, <1>3, StoppedEarly

LEMMA PruneBinStopsKeeps ==
  ASSUME IInv, NEW how \in {"failed", "killed"}, PruneBinStops(how)
  PROVE  IInv'
<1>1. /\ bin' \subseteq bin /\ Stopped("prune_bin", how) /\ "prune_bin" \in Ops
      /\ csv' = csv /\ db' = db /\ fetched' = fetched /\ copy' = copy
  BY DEF PruneBinStops, Ops
<1>2. TypeOK'
  BY <1>1, StoppedStep DEF IInv, TypeOK
<1> QED
  BY <1>1, <1>2, StoppedEarly

LEMMA FetchStopsKeeps ==
  ASSUME IInv, NEW how \in {"failed", "killed"}, FetchStops(how)
  PROVE  IInv'
<1>1. /\ csv' \subseteq csv \cup Versions /\ Stopped("fetch", how) /\ "fetch" \in Ops
      /\ bin' = bin /\ db' = db /\ fetched' = fetched /\ copy' = copy
  BY DEF FetchStops, Ops
<1>2. TypeOK'
  BY <1>1, StoppedStep DEF IInv, TypeOK
<1> QED
  BY <1>1, <1>2, StoppedEarly

LEMMA PruneCsvStopsKeeps ==
  ASSUME IInv, NEW how \in {"failed", "killed"}, PruneCsvStops(how)
  PROVE  IInv'
<1>1. /\ csv' \subseteq csv /\ Stopped("prune_csv", how) /\ "prune_csv" \in Ops
      /\ bin' = bin /\ db' = db /\ fetched' = fetched /\ copy' = copy
  BY DEF PruneCsvStops, Ops
<1>2. TypeOK'
  BY <1>1, StoppedStep DEF IInv, TypeOK
<1>3. /\ outcome = "running" /\ BinVersions' = BinVersions
      /\ before' = before /\ Ours' = Ours
  BY <1>1, StoppedStep, AtStep DEF IInv, BinVersions
<1>4. Named' /\ Secured' /\ FetchedFirst'
  BY <1>1, <1>3 DEF IInv, Named, Secured, FetchedFirst, Ran
<1> QED
  BY <1>1, <1>2, <1>4, StoppedKeeps

LEMMA CleanStopsKeeps ==
  ASSUME IInv, NEW how \in {"failed", "killed"}, CleanStops(how)
  PROVE  IInv'
<1>1. /\ db' = db \/ \E v \in {db.pointer, Absent} : db' \in {Debris(v), Empty(v)}
      /\ Stopped("clean", how) /\ At("clean") /\ "clean" \in Ops
      /\ bin' = bin /\ csv' = csv /\ fetched' = fetched /\ copy' = copy
  BY StoppedStep DEF IInv, CleanStops, Ops
<1>2. TypeOK' /\ Named'
  <2>1. db' \in Databases
    BY <1>1, Types DEF IInv, TypeOK
  <2>2. db' = db \/ ~db'.verifies
    BY <1>1 DEF Debris, Empty
  <2> QED
    BY <1>1, <2>1, <2>2, StoppedStep DEF IInv, TypeOK, Named
<1>3. BinVersions' = BinVersions /\ Ours' = Ours
  BY <1>1, StoppedStep DEF IInv, BinVersions
<1>4. Secured' /\ FetchedFirst'
  BY <1>1, <1>3, Earned, PipelineAssumption DEF Secured, FetchedFirst
<1> QED
  BY <1>1, <1>2, <1>4, StoppedKeeps

LEMMA BuildStopsKeeps ==
  ASSUME IInv, NEW how \in {"failed", "killed"}, BuildStops(how)
  PROVE  IInv'
<1>1. /\ \/ db' \in {db, Debris(db.pointer), Debris(Absent), Built}
         \/ db.pointer # Absent /\ \E legacy \in BOOLEAN : db' = Database(db.pointer, legacy)
      /\ Stopped("build", how) /\ At("build") /\ "build" \in Ops
      /\ bin' = bin /\ csv' = csv /\ fetched' = fetched /\ copy' = copy
  BY StoppedStep DEF IInv, BuildStops, Ops
<1>2. "build" \in Ours /\ fetched \in Versions /\ fetched # Absent
  BY <1>1, AtStep, Earned, PipelineAssumption DEF IInv
<1>3. TypeOK' /\ Named'
  <2>1. db' \in Databases
    <3>1. db.pointer \in Versions \cup {Absent}
      BY DEF IInv, TypeOK, Databases
    <3>2. \A legacy \in BOOLEAN : Database(db.pointer, legacy) \in Databases
      BY <3>1 DEF Database, Databases
    <3> QED
      BY <1>1, <3>2, Types DEF IInv, TypeOK
  <2>2. db' = db \/ ~db'.verifies \/ db'.pointer # Absent
    BY <1>1, <1>2 DEF Debris, Built, Database
  <2> QED
    BY <1>1, <1>2, <2>1, <2>2, StoppedStep DEF IInv, TypeOK, Named
<1>4. BinVersions' = BinVersions /\ Ours' = Ours
  BY <1>1, StoppedStep DEF IInv, BinVersions
<1>5. Secured' /\ FetchedFirst'
  BY <1>1, <1>2, <1>4, Earned DEF Secured, FetchedFirst
<1> QED
  BY <1>1, <1>3, <1>5, StoppedKeeps

-----------------------------------------------------------------------------
(***************************************************************************)
(* The invariant, and what follows from it.                                *)
(***************************************************************************)
LEMMA StopsKeep ==
  ASSUME IInv, NEW how \in {"failed", "killed"}, Stops(how)
  PROVE  IInv'
BY BackupStopsKeeps, PruneBinStopsKeeps, PruneCsvStopsKeeps, FetchStopsKeeps,
   CleanStopsKeeps, BuildStopsKeeps DEF Stops

LEMMA InitKeeps == Init => IInv
<1> SUFFICES ASSUME Init PROVE IInv
  OBVIOUS
<1>1. TypeOK
  BY DEF Init, TypeOK, Empty, Databases, Contexts
<1>2. Named /\ RunInv /\ StepInv /\ Secured /\ FetchedFirst /\ BuiltIsFetched
  BY DEF Init, Empty, Named, RunInv, StepInv, Secured, FetchedFirst, BuiltIsFetched,
         Finished, Ran
<1> QED
  BY <1>1, <1>2 DEF IInv

LEMMA NextKeeps == IInv /\ [Next]_vars => IInv'
<1> SUFFICES ASSUME IInv, [Next]_vars PROVE IInv'
  OBVIOUS
<1>1. CASE Start
  BY <1>1, RefuseKeeps, UnwritableKeeps, BeginKeeps DEF Start
<1>2. CASE Backup
  BY <1>2, BackupKeeps
<1>3. CASE PruneBin
  BY <1>3, PruneBinKeeps
<1>4. CASE PruneCsv
  BY <1>4, PruneCsvKeeps
<1>5. CASE Clean
  BY <1>5, CleanKeeps
<1>6. CASE Build
  BY <1>6, BuildKeeps
<1>7. CASE \E v \in Versions : FetchRemote(v) \/ FetchLocal(v)
  BY <1>7, FetchKeeps
<1>8. CASE Stops("failed") \/ Stops("killed")
  BY <1>8, StopsKeep
<1>9. CASE Exit
  BY <1>9, ExitKeeps
<1>10. CASE UNCHANGED vars
  <2>1. /\ csv' = csv /\ bin' = bin /\ db' = db /\ run' = run /\ writable' = writable
        /\ todo' = todo /\ outcome' = outcome /\ fetched' = fetched
        /\ before' = before /\ copy' = copy
    BY <1>10 DEF vars
  <2>2. Ours' = Ours /\ BinVersions' = BinVersions /\ Ran' = Ran /\ Built' = Built
        /\ \A op : Finished(op)' = Finished(op)
    BY <2>1 DEF Ours, BinVersions, Ran, Built, Finished
  <2>3. TypeOK' /\ RunInv' /\ Named'
    BY <2>1, <2>2 DEF IInv, TypeOK, RunInv, Named
  <2>4. StepInv'
    BY <2>1, <2>2 DEF IInv, StepInv
  <2>5. Secured' /\ FetchedFirst' /\ BuiltIsFetched'
    BY <2>1, <2>2 DEF IInv, Secured, FetchedFirst, BuiltIsFetched
  <2> QED
    BY <2>3, <2>4, <2>5 DEF IInv
<1> QED
  BY <1>1, <1>2, <1>3, <1>4, <1>5, <1>6, <1>7, <1>8, <1>9, <1>10 DEF Next

\* The invariant holds of every behaviour: what is still to do are the last
\* steps of the plan, and each finished step has had its effect (execute_steps).
THEOREM Invariance == Spec => []IInv
<1>1. Init => IInv
  BY InitKeeps
<1>2. IInv /\ [Next]_vars => IInv'
  BY NextKeeps
<1> QED
  BY <1>1, <1>2, PTL DEF Spec

\* Every variable keeps its type; of the archives, that no release but a
\* verified one is in the name of a verified backup (backup_mode).
THEOREM TypeCorrect == Spec => []TypeOK
<1>1. IInv => TypeOK
  BY DEF IInv
<1> QED
  BY <1>1, Invariance, PTL

\* A run with -b destroys nothing it has not archived, whatever fails and
\* wherever it is killed (plan_generated, execute_steps).
THEOREM BackupFirst == Spec => []Secured
<1>1. IInv => Secured
  BY DEF IInv
<1> QED
  BY <1>1, Invariance, PTL

\* A run that builds leaves the output directory alone until it has an
\* archive to build from (run_action).
THEOREM FetchFirst == Spec => []FetchedFirst
<1>1. IInv => FetchedFirst
  BY DEF IInv
<1> QED
  BY <1>1, Invariance, PTL

\* A run that ends well leaves what it fetched installed (run_action).
THEOREM InstallsFetched == Spec => []BuiltIsFetched
<1>1. IInv => BuiltIsFetched
  BY DEF IInv
<1> QED
  BY <1>1, Invariance, PTL

\* With -p, archives of at most Keep releases are left, for any Keep and any
\* set of releases (prune_bin_archives, prune_csv_archives).
THEOREM PruningRetains == Spec => []RetentionHolds
<1>1. IInv => RetentionHolds
  BY DEF IInv, StepInv, RunInv, RetentionHolds, Finished
<1> QED
  BY <1>1, Invariance, PTL

\* What the probe allows is enough for every step of the plan
\* (check_plan_writable, dirs_written).
THEOREM ProbeSuffices == Spec => []NeverDenied
<1>1. IInv => NeverDenied
  <2> SUFFICES ASSUME IInv PROVE NeverDenied
    OBVIOUS
  <2>1. CASE outcome # "running"
    BY <2>1 DEF IInv, RunInv, NeverDenied
  <2>2. CASE outcome = "running"
    <3>1. todo \subseteq Ours /\ DirsWritten(run.ctx, run.flags) \subseteq writable
      BY <2>2 DEF IInv, RunInv
    <3>2. ASSUME NEW op \in todo, op # "build"
          PROVE  StepWrites(run.ctx, op) \subseteq writable
      BY <3>1, <3>2 DEF DirsWritten, Ours
    <3>3. "clean" \in todo => "output" \in writable
      BY <3>2 DEF StepWrites
    <3>4. "build" \in todo => "output" \in writable
      BY <3>1 DEF DirsWritten, Ours
    <3>5. todo \cap {"backup", "prune_bin", "prune_csv"} # {} => "archive" \in writable
      BY <3>2 DEF StepWrites
    <3>6. "fetch" \in todo /\ Remote(run.ctx) => "archive" \in writable
      BY <3>2 DEF StepWrites
    <3> QED
      BY <3>3, <3>4, <3>5, <3>6 DEF NeverDenied
  <2> QED
    BY <2>1, <2>2
<1> QED
  BY <1>1, Invariance, PTL
-----------------------------------------------------------------------------
(***************************************************************************)
(* No flag without an effect.                                              *)
(***************************************************************************)
\* A run that goes on past the guards is one they let pass.
RanInv == Ran => Accepted(run.ctx, run.flags)

\* The guards' conditions on what they let pass, context by context.
LEMMA LetPass ==
  ASSUME NEW flags \in SUBSET Flags
  PROVE  /\ Accepted("top", flags) =>
              /\ "L" \notin flags
              /\ "B" \in flags \/ "C" \in flags
              /\ "P" \in flags => "B" \in flags /\ "F" \notin flags
              /\ ~({"B", "C", "F"} \subseteq flags)
         /\ Accepted("build", flags) =>
              /\ "F" \in flags => "B" \in flags \/ "C" \in flags
              /\ "P" \in flags => "B" \in flags /\ "F" \notin flags
              /\ ~({"B", "C", "F"} \subseteq flags)
         /\ Accepted("fetch", flags) => flags \subseteq {"P"}
         /\ Accepted("run", flags) =>
              /\ "F" \in flags => "B" \in flags \/ "C" \in flags
              /\ "P" \in flags => "F" \notin flags
              /\ ~({"B", "C", "F"} \subseteq flags)
<1>1. ASSUME NEW c \in Contexts, Accepted(c, flags), NEW i \in DOMAIN Guards(c)
      PROVE  ~Fires(Guards(c)[i], flags)
  BY <1>1 DEF Accepted, Outcome, Firing
<1>2. ASSUME Accepted("top", flags)
      PROVE  /\ "L" \notin flags
             /\ "B" \in flags \/ "C" \in flags
             /\ "P" \in flags => "B" \in flags /\ "F" \notin flags
             /\ ~({"B", "C", "F"} \subseteq flags)
  <2>1. Guards("top") = TopLevelGuards /\ DOMAIN TopLevelGuards = 1 .. 7
    BY DEF Guards, TopLevelGuards
  <2>2. \A i \in 1 .. 7 : ~Fires(TopLevelGuards[i], flags)
    BY <1>1, <1>2, <2>1 DEF Contexts
  <2>3. /\ ~Fires(TopLevelGuards[1], flags) /\ ~Fires(TopLevelGuards[2], flags)
        /\ ~Fires(TopLevelGuards[5], flags) /\ ~Fires(TopLevelGuards[6], flags)
        /\ ~Fires(TopLevelGuards[7], flags)
    BY <2>2
  <2>4. /\ "L" \notin flags
        /\ "P" \in flags => "B" \in flags \/ "C" \in flags
        /\ "C" \in flags /\ "P" \in flags => "B" \in flags
        /\ ~("B" \in flags /\ "P" \in flags /\ "F" \in flags)
        /\ ~("B" \in flags /\ "C" \in flags /\ "F" \in flags)
    BY <2>3 DEF TopLevelGuards, Fires, Guard
  <2>5. "B" \in flags \/ "C" \in flags
    BY <1>2 DEF Accepted, Outcome
  <2> QED
    BY <2>4, <2>5
<1>3. ASSUME Accepted("build", flags)
      PROVE  /\ "F" \in flags => "B" \in flags \/ "C" \in flags
             /\ "P" \in flags => "B" \in flags /\ "F" \notin flags
             /\ ~({"B", "C", "F"} \subseteq flags)
  <2>1. Guards("build") = BuildGuards /\ DOMAIN BuildGuards = 1 .. 4
    BY DEF Guards, BuildGuards
  <2>2. \A i \in 1 .. 4 : ~Fires(BuildGuards[i], flags)
    BY <1>1, <1>3, <2>1 DEF Contexts
  <2>3. /\ ~Fires(BuildGuards[1], flags) /\ ~Fires(BuildGuards[2], flags)
        /\ ~Fires(BuildGuards[3], flags) /\ ~Fires(BuildGuards[4], flags)
    BY <2>2
  <2> QED
    BY <2>3 DEF BuildGuards, Fires, Guard
<1>4. ASSUME Accepted("fetch", flags)
      PROVE  flags \subseteq {"P"}
  <2>1. Guards("fetch") = FetchGuards /\ DOMAIN FetchGuards = 1 .. 4
    BY DEF Guards, FetchGuards
  <2>2. \A i \in 1 .. 4 : ~Fires(FetchGuards[i], flags)
    BY <1>1, <1>4, <2>1 DEF Contexts
  <2>3. /\ ~Fires(FetchGuards[1], flags) /\ ~Fires(FetchGuards[2], flags)
        /\ ~Fires(FetchGuards[3], flags) /\ ~Fires(FetchGuards[4], flags)
    BY <2>2
  <2>4. "L" \notin flags /\ "B" \notin flags /\ "C" \notin flags /\ "F" \notin flags
    BY <2>3 DEF FetchGuards, Fires, Guard
  <2> QED
    BY <2>4 DEF Flags
<1>5. ASSUME Accepted("run", flags)
      PROVE  /\ "F" \in flags => "B" \in flags \/ "C" \in flags
             /\ "P" \in flags => "F" \notin flags
             /\ ~({"B", "C", "F"} \subseteq flags)
  <2>1. Guards("run") = RunGuards /\ DOMAIN RunGuards = 1 .. 4
    BY DEF Guards, RunGuards
  <2>2. \A i \in 1 .. 4 : ~Fires(RunGuards[i], flags)
    BY <1>1, <1>5, <2>1 DEF Contexts
  <2>3. /\ ~Fires(RunGuards[1], flags) /\ ~Fires(RunGuards[2], flags)
        /\ ~Fires(RunGuards[4], flags)
    BY <2>2
  <2> QED
    BY <2>3 DEF RunGuards, Fires, Guard
<1> QED
  BY <1>2, <1>3, <1>4, <1>5

\* Which flag brings which step, where the guards let it pass.
LEMMA StepsOfFlags ==
  ASSUME NEW c \in Contexts, NEW flags \in SUBSET Flags, Accepted(c, flags)
  PROVE  /\ "backup" \in Plan(c, flags) <=> "B" \in flags
         /\ "clean" \in Plan(c, flags) <=> "C" \in flags
         /\ {"prune_bin", "prune_csv"} \cap Plan(c, flags) # {} <=> "P" \in flags
         /\ "build" \in Plan(c, flags) <=> c \in {"build", "run"}
<1>1. CASE c = "top"
  <2>1. /\ "B" \in flags \/ "C" \in flags
        /\ "P" \in flags => "B" \in flags
    BY <1>1, LetPass
  <2>2. Plan(c, flags) = TopLevelPlan(flags)
    BY <1>1 DEF Plan
  <2> QED
    BY <1>1, <2>1, <2>2 DEF TopLevelPlan, If
<1>2. CASE c = "build"
  <2>1. Plan(c, flags) = BuildPlan(flags)
    BY <1>2 DEF Plan
  <2> QED
    BY <1>2, <2>1 DEF BuildPlan, If
<1>3. CASE c = "fetch"
  <2>1. Plan(c, flags) = FetchPlan(flags) /\ flags \subseteq {"P"}
    BY <1>3, LetPass DEF Plan
  <2> QED
    BY <1>3, <2>1 DEF FetchPlan, If
<1>4. CASE c = "run"
  <2>1. Plan(c, flags) = RunPlan(flags)
    BY <1>4 DEF Plan
  <2> QED
    BY <1>4, <2>1 DEF RunPlan, If
<1> QED
  BY <1>1, <1>2, <1>3, <1>4 DEF Contexts

\* -f comes with just one of -b and -c, and -l where there is a build.
LEMMA ForceHasOne ==
  ASSUME NEW c \in Contexts, NEW flags \in SUBSET Flags, Accepted(c, flags)
  PROVE  /\ "F" \in flags => ("B" \in flags) # ("C" \in flags)
         /\ "L" \in flags => c \in {"build", "run"}
<1>1. "F" \in flags => ("B" \in flags \/ "C" \in flags) /\ ~({"B", "C", "F"} \subseteq flags)
  BY LetPass DEF Contexts
<1>2. "L" \in flags => c \in {"build", "run"}
  BY LetPass DEF Contexts
<1> QED
  BY <1>1, <1>2

\* Two accepted combinations that differ in one flag differ in their effect.
LEMMA FlagsCount ==
  ASSUME NEW c \in Contexts, NEW flags \in SUBSET Flags, Accepted(c, flags),
         NEW x \in flags, Accepted(c, flags \ {x})
  PROVE  Effect(c, flags \ {x}) # Effect(c, flags)
<1> DEFINE less == flags \ {x}
<1>0. less \in SUBSET Flags /\ x \in Flags
  OBVIOUS
<1>1. /\ "backup" \in Plan(c, flags) <=> "B" \in flags
      /\ "clean" \in Plan(c, flags) <=> "C" \in flags
      /\ {"prune_bin", "prune_csv"} \cap Plan(c, flags) # {} <=> "P" \in flags
      /\ "build" \in Plan(c, flags) <=> c \in {"build", "run"}
  BY StepsOfFlags
<1>2. /\ "backup" \in Plan(c, less) <=> "B" \in less
      /\ "clean" \in Plan(c, less) <=> "C" \in less
      /\ {"prune_bin", "prune_csv"} \cap Plan(c, less) # {} <=> "P" \in less
  BY <1>0, StepsOfFlags
<1>3. /\ "F" \in flags => ("B" \in flags) # ("C" \in flags)
      /\ "L" \in flags => c \in {"build", "run"}
  BY ForceHasOne
<1>4. x \notin less
  OBVIOUS
<1>5. /\ Effect(c, flags).plan = Plan(c, flags) /\ Effect(c, less).plan = Plan(c, less)
      /\ Effect(c, flags).force = (Forced(flags) /\ Plan(c, flags) \cap {"backup", "clean"} # {})
      /\ Effect(c, less).force = (Forced(less) /\ Plan(c, less) \cap {"backup", "clean"} # {})
      /\ Effect(c, flags).legacy = ("L" \in flags /\ "build" \in Plan(c, flags))
      /\ Effect(c, less).legacy = ("L" \in less /\ "build" \in Plan(c, less))
  BY DEF Effect
<1>6. CASE x \in {"B", "C", "P"}
  <2>1. Plan(c, less) # Plan(c, flags)
    BY <1>1, <1>2, <1>4, <1>6
  <2> QED
    BY <2>1, <1>5
<1>7. CASE x = "F"
  <2>1. Forced(flags) /\ ~Forced(less)
    BY <1>4, <1>7 DEF Forced
  <2>2. Plan(c, flags) \cap {"backup", "clean"} # {}
    BY <1>1, <1>3, <1>7
  <2>3. Effect(c, flags).force = TRUE /\ Effect(c, less).force = FALSE
    BY <1>5, <2>1, <2>2
  <2> QED
    BY <2>3
<1>8. CASE x = "L"
  <2>1. Effect(c, flags).legacy = TRUE /\ Effect(c, less).legacy = FALSE
    BY <1>1, <1>3, <1>4, <1>5, <1>8
  <2> QED
    BY <2>1
<1> QED
  BY <1>0, <1>6, <1>7, <1>8 DEF Flags

LEMMA RanKeeps ==
  ASSUME IInv, RanInv, [Next]_vars
  PROVE  RanInv'
<1>1. CASE Start
  <2>1. PICK c \in Contexts, flags \in SUBSET Flags :
          \/ Refuse(c, flags)
          \/ \E w \in SUBSET Dirs : Unwritable(c, flags, w) \/ Begin(c, flags, w)
    BY <1>1 DEF Start
  <2>2. CASE Refuse(c, flags)
    <3>1. outcome' = Outcome(c, flags) /\ ~Accepted(c, flags)
      BY <2>2 DEF Refuse
    <3>2. outcome' \notin {"running", "done", "failed", "killed"}
      BY <3>1 DEF Outcome, Accepted
    <3> QED
      BY <3>2 DEF RanInv, Ran
  <2>3. CASE \E w \in SUBSET Dirs : Unwritable(c, flags, w)
    BY <2>3 DEF Unwritable, RanInv, Ran
  <2>4. CASE \E w \in SUBSET Dirs : Begin(c, flags, w)
    BY <2>4 DEF Begin, Invoke, RanInv, Ran
  <2> QED
    BY <2>1, <2>2, <2>3, <2>4
<1>2. ASSUME NEW op, At(op), UNCHANGED context
      PROVE  RanInv'
  <2>1. todo # {} /\ run' = run
    BY <1>2 DEF At, context
  <2>2. Accepted(run.ctx, run.flags)
    BY <2>1 DEF IInv, RunInv
  <2> QED
    BY <2>1, <2>2 DEF RanInv
<1>3. CASE \/ Backup \/ PruneBin \/ PruneCsv \/ Clean \/ Build
           \/ \E v \in Versions : FetchRemote(v) \/ FetchLocal(v)
  BY <1>2, <1>3 DEF Backup, PruneBin, PruneCsv, Clean, Build, FetchRemote, FetchLocal, Did
<1>4. CASE Stops("failed") \/ Stops("killed")
  BY <1>2, <1>4 DEF Stops, BackupStops, PruneBinStops, PruneCsvStops, FetchStops, CleanStops,
                    BuildStops, Stopped
<1>5. CASE Exit
  BY <1>5 DEF Exit, RanInv, Ran
<1>6. CASE UNCHANGED vars
  BY <1>6 DEF vars, RanInv, Ran
<1> QED
  BY <1>1, <1>3, <1>4, <1>5, <1>6 DEF Next

\* Every flag of a run counts: it is refused without it or does something
\* else; and -f is for one step, the backup or the clean (first_guard,
\* normalize_cli_to_action).
THEOREM FlagsHaveEffect == Spec => []EveryFlagCounts
<1>1. Init => RanInv
  BY DEF Init, RanInv, Ran
<1>2. IInv /\ RanInv => EveryFlagCounts
  <2> SUFFICES ASSUME IInv, RanInv PROVE EveryFlagCounts
    OBVIOUS
  <2>1. run.ctx \in Contexts /\ run.flags \in SUBSET Flags
    BY DEF IInv, TypeOK
  <2>2. ASSUME todo # {}, NEW x \in run.flags, Accepted(run.ctx, run.flags \ {x})
        PROVE  Effect(run.ctx, run.flags \ {x}) # Effect(run.ctx, run.flags)
    <3>1. Accepted(run.ctx, run.flags)
      BY <2>2 DEF IInv, RunInv
    <3> QED
      BY <2>1, <2>2, <3>1, FlagsCount
  <2>3. ASSUME Ran, "F" \in run.flags
        PROVE  ("backup" \in Ours) # ("clean" \in Ours)
    <3>1. Accepted(run.ctx, run.flags)
      BY <2>3 DEF RanInv
    <3>2. /\ "backup" \in Ours <=> "B" \in run.flags
          /\ "clean" \in Ours <=> "C" \in run.flags
      BY <2>1, <3>1, StepsOfFlags DEF Ours
    <3>3. ("B" \in run.flags) # ("C" \in run.flags)
      BY <2>1, <2>3, <3>1, ForceHasOne
    <3> QED
      BY <3>2, <3>3
  <2> QED
    BY <2>2, <2>3 DEF EveryFlagCounts
<1> QED
  BY <1>1, <1>2, RanKeeps, Invariance, PTL DEF Spec
=============================================================================
