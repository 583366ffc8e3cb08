------------------------------- MODULE Pipeline -------------------------------
(***************************************************************************)
(* run_action: one invocation after the other runs its plan step by step   *)
(* over the archive directory and the output directory.  Any step may fail *)
(* and the process may be killed in it; either ends the plan, with what    *)
(* the step has done so far left as it is.                                 *)
(*                                                                         *)
(* The two directories are seen from afar here: which releases there are   *)
(* archives of, and whether the output directory holds a database that     *)
(* verifies.  OutputDir and CsvArchives model what a step does to them.    *)
(***************************************************************************)
EXTENDS Plans, FiniteSets

CONSTANTS
  Versions,  \* release dates
  Keep,      \* paths.archive_prune
  Absent     \* nothing there

ASSUME PipelineAssumption ==
  /\ Versions \subseteq Nat
  /\ IsFiniteSet(Versions)
  /\ Keep \in Nat \ {0}
  /\ Absent \notin Versions

VARIABLES
  csv,       \* releases there is a CSV archive of
  bin,       \* names of the binary archives
  db,        \* the output directory
  run,       \* context and flags of the invocation, until the process is gone
  writable,  \* the directories it can write
  todo,      \* the steps it has still to do
  outcome,   \* how it is going or how it ended
  fetched,   \* the release it fetched
  before,    \* the output directory as it found it
  copy       \* the name of the backup it made

places == <<csv, bin, db>>
context == <<run, writable, before>>
vars == <<csv, bin, db, run, writable, todo, outcome, fetched, before, copy>>

\* GeoLite2-Country-bin_<v>.tar.gz and GeoLite2-Country-bin_unverified_<v>;
\* with no release in the version file that is unknown_version.
BinNames == ({"verified"} \X Versions) \cup ({"unverified"} \X (Versions \cup {Absent}))

\* What the version file names, whether the files verify against the
\* manifest of that release, whether there are any files, and whether the
\* database that verifies is a legacy one.
Databases ==
  [pointer : Versions \cup {Absent}, verifies : BOOLEAN, files : BOOLEAN, legacy : BOOLEAN]

Database(v, legacy) == [pointer |-> v, verifies |-> TRUE, files |-> TRUE, legacy |-> legacy]

Debris(v) == [pointer |-> v, verifies |-> FALSE, files |-> TRUE, legacy |-> FALSE]

Empty(v) == [pointer |-> v, verifies |-> FALSE, files |-> FALSE, legacy |-> FALSE]

TypeOK ==
  /\ csv \subseteq Versions
  /\ bin \subseteq BinNames
  /\ db \in Databases
  /\ run \in [ctx : Contexts, flags : SUBSET Flags]
  /\ writable \subseteq Dirs
  /\ todo \subseteq Ops
  /\ outcome \in {"none", "refused", "unsupported", "help", "unwritable",
                  "running", "done", "failed", "killed"}
  /\ fetched \in Versions \cup {Absent}
  /\ before \in Databases
  /\ copy \in BinNames \cup {<<>>}

Init ==
  /\ csv = {}
  /\ bin = {}
  /\ db = Empty(Absent)
  /\ run = [ctx |-> "top", flags |-> {}]
  /\ writable = {}
  /\ todo = {}
  /\ outcome = "none"
  /\ fetched = Absent
  /\ before = Empty(Absent)
  /\ copy = <<>>

(***************************************************************************)
(* An invocation: refused, or sent away since it could not write, before   *)
(* anything is done; or begun.                                             *)
(***************************************************************************)
Invoke(c, flags, w) ==
  /\ run' = [ctx |-> c, flags |-> flags]
  /\ writable' = w
  /\ before' = db
  /\ UNCHANGED <<places, fetched, copy>>

Refuse(c, flags) ==
  /\ Invoke(c, flags, {})
  /\ ~Accepted(c, flags)
  /\ outcome' = Outcome(c, flags)
  /\ todo' = {}

Unwritable(c, flags, w) ==
  /\ Invoke(c, flags, w)
  /\ Accepted(c, flags)
  /\ ~(DirsWritten(c, flags) \subseteq w)
  /\ outcome' = "unwritable"
  /\ todo' = {}

Begin(c, flags, w) ==
  /\ Invoke(c, flags, w)
  /\ Accepted(c, flags)
  /\ DirsWritten(c, flags) \subseteq w
  /\ outcome' = "running"
  /\ todo' = Plan(c, flags)

(***************************************************************************)
(* The steps.                                                              *)
(***************************************************************************)
At(op) == op \in todo /\ \A other \in todo : Rank[op] <= Rank[other]

\* The step is done; the last one ends the run.
Did(op) ==
  /\ At(op)
  /\ todo' = todo \ {op}
  /\ outcome' = IF todo = {op} THEN "done" ELSE "running"
  /\ UNCHANGED context

\* The step stops short of its end.
Stopped(op, how) ==
  /\ At(op)
  /\ todo' = {}
  /\ outcome' = how
  /\ UNCHANGED context

\* The backup a step would make: only what verifies is backed up without -f.
BackupName == IF Forced(run.flags) THEN <<"unverified", db.pointer>>
                                   ELSE <<"verified", db.pointer>>

CanBackup == IF Forced(run.flags) THEN db.files \/ db.pointer # Absent ELSE db.verifies

Backup ==
  /\ CanBackup
  /\ Did("backup")
  /\ bin' = bin \cup {BackupName}
  /\ copy' = BackupName
  /\ UNCHANGED <<csv, db, fetched>>

\* create_tarball renames last: a backup that fails leaves no archive, one
\* that is killed may have made it.
BackupStops(how) ==
  /\ Stopped("backup", how)
  /\ \/ UNCHANGED bin
     \/ how = "killed" /\ CanBackup /\ bin' = bin \cup {BackupName}
  /\ UNCHANGED <<csv, db, fetched, copy>>

\* Releases with an archive, and all but the newest Keep of them.
Superseded(S) == {v \in S : Cardinality({w \in S : w > v}) >= Keep}

BinVersions == {n[2] : n \in bin} \ {Absent}

DoomedBin == {n \in bin : n[2] \in Superseded(BinVersions)}

PruneBin ==
  /\ Did("prune_bin")
  /\ bin' = bin \ DoomedBin
  /\ UNCHANGED <<csv, db, fetched, copy>>

\* Oldest release first.
PruneBinStops(how) ==
  /\ Stopped("prune_bin", how)
  /\ \E D \in SUBSET DoomedBin :
       /\ \A n \in D, m \in DoomedBin \ D : n[2] <= m[2]
       /\ bin' = bin \ D
  /\ UNCHANGED <<csv, db, fetched, copy>>

PruneCsv ==
  /\ Did("prune_csv")
  /\ csv' = csv \ Superseded(csv)
  /\ UNCHANGED <<bin, db, fetched, copy>>

PruneCsvStops(how) ==
  /\ Stopped("prune_csv", how)
  /\ \E D \in SUBSET Superseded(csv) :
       /\ \A v \in D, w \in Superseded(csv) \ D : v < w
       /\ csv' = csv \ D
  /\ UNCHANGED <<bin, db, fetched, copy>>

\* The server may answer with any release, also an older one than before.
FetchRemote(v) ==
  /\ Remote(run.ctx)
  /\ Did("fetch")
  /\ csv' = csv \cup {v}
  /\ fetched' = v
  /\ UNCHANGED <<bin, db, copy>>

FetchLocal(v) ==
  /\ ~Remote(run.ctx)
  /\ Did("fetch")
  /\ v \in csv /\ \A w \in csv : w <= v
  /\ fetched' = v
  /\ UNCHANGED <<csv, bin, db, copy>>

\* A download may be in place when the fetch fails.
FetchStops(how) ==
  /\ Stopped("fetch", how)
  /\ \/ UNCHANGED csv
     \/ Remote(run.ctx) /\ \E v \in Versions : csv' = csv \cup {v}
  /\ UNCHANGED <<bin, db, fetched, copy>>

CanClean == IF Forced(run.flags) THEN db.files \/ db.pointer # Absent ELSE db.verifies

\* A verified clean leaves files the manifest does not list, if there are any.
Clean ==
  /\ CanClean
  /\ Did("clean")
  /\ \/ db' = Empty(Absent)
     \/ ~Forced(run.flags) /\ db' = Debris(Absent)
  /\ UNCHANGED <<csv, bin, fetched, copy>>

\* Some files are gone, the version file among them or not.
CleanStops(how) ==
  /\ Stopped("clean", how)
  /\ \/ UNCHANGED db
     \/ CanClean /\ \E v \in {db.pointer, Absent} : db' \in {Debris(v), Empty(v)}
  /\ UNCHANGED <<csv, bin, fetched, copy>>

Built == Database(fetched, "L" \in run.flags)

Build ==
  /\ Did("build")
  /\ db' = Built
  /\ UNCHANGED <<csv, bin, fetched, copy>>

\* Nothing was written yet, or some files were, which may even have mended the
\* release the version file names; or a version file was cut; or only the
\* sweep, which comes last, is missing.
BuildStops(how) ==
  /\ Stopped("build", how)
  /\ \/ db' \in {db, Debris(db.pointer), Debris(Absent), Built}
     \/ db.pointer # Absent /\ \E legacy \in BOOLEAN : db' = Database(db.pointer, legacy)
  /\ UNCHANGED <<csv, bin, fetched, copy>>

-----------------------------------------------------------------------------
\* The process is gone.
Exit ==
  /\ outcome \notin {"none", "running"}
  /\ run' = [ctx |-> "top", flags |-> {}]
  /\ writable' = {}
  /\ outcome' = "none"
  /\ fetched' = Absent
  /\ before' = Empty(Absent)
  /\ copy' = <<>>
  /\ UNCHANGED <<places, todo>>

Stops(how) ==
  \/ BackupStops(how) \/ PruneBinStops(how) \/ PruneCsvStops(how)
  \/ FetchStops(how) \/ CleanStops(how) \/ BuildStops(how)

Start ==
  /\ outcome = "none"
  /\ \E c \in Contexts, flags \in SUBSET Flags :
       \/ Refuse(c, flags)
       \/ \E w \in SUBSET Dirs : Unwritable(c, flags, w) \/ Begin(c, flags, w)

Next ==
  \/ Start
  \/ Backup \/ PruneBin \/ PruneCsv \/ Clean \/ Build
  \/ \E v \in Versions : FetchRemote(v) \/ FetchLocal(v)
  \/ Stops("failed") \/ Stops("killed")
  \/ Exit

Spec == Init /\ [][Next]_vars

-----------------------------------------------------------------------------
(***************************************************************************)
(* Properties.                                                             *)
(***************************************************************************)
Ours == Plan(run.ctx, run.flags)
Ran  == outcome \in {"running", "done", "failed", "killed"}

\* Once a run with -b has touched the output directory, what was there is in
\* the archive, unless -p took the copy too, with Keep newer releases archived
\* (plan_generated, execute_steps).
Secured ==
  Ran /\ "backup" \in Ours /\ db # before =>
    \/ copy \in bin
    \/ /\ "prune_bin" \in Ours /\ copy # <<>>
       /\ Cardinality({v \in BinVersions : v > copy[2]}) >= Keep

\* A run that builds leaves the output directory alone until it has an
\* archive to build from: a failed download costs nothing (run_action).
FetchedFirst == Ran /\ "build" \in Ours /\ db # before => fetched # Absent

\* A run that ends well leaves the release it fetched installed, whole, also
\* when its archive was pruned in between or the output directory cleaned
\* (run_action).
BuiltIsFetched == outcome = "done" /\ "build" \in Ours => fetched # Absent /\ db = Built

\* When a run with -p ends well there are archives of at most Keep releases,
\* the new one included (plan_generated).
RetentionHolds ==
  outcome = "done" =>
    /\ "prune_bin" \in Ours => Cardinality(BinVersions) <= Keep
    /\ "prune_csv" \in Ours => Cardinality(csv) <= Keep

\* No step meets a directory it may not write to: a run that would is refused
\* before its first step (check_plan_writable).
NeverDenied ==
  /\ "build" \in todo \/ "clean" \in todo => "output" \in writable
  /\ \/ todo \cap {"backup", "prune_bin", "prune_csv"} # {}
     \/ "fetch" \in todo /\ Remote(run.ctx)
     => "archive" \in writable

\* What an invocation does with its flags.
Effect(c, flags) ==
  LET plan == Plan(c, flags) IN
    [plan   |-> plan,
     force  |-> Forced(flags) /\ plan \cap {"backup", "clean"} # {},
     legacy |-> "L" \in flags /\ "build" \in plan]

\* No accepted flag is ignored: without it the invocation would be refused or
\* would do something else.  And none is ambiguous: the backup and the clean
\* have one mode, so a plan with -f has exactly one of them
\* (first_guard, normalize_cli_to_action).
EveryFlagCounts ==
  /\ todo # {} /\ todo = Ours => \A x \in run.flags :
       Accepted(run.ctx, run.flags \ {x}) =>
         Effect(run.ctx, run.flags \ {x}) # Effect(run.ctx, run.flags)
  /\ Ran /\ "F" \in run.flags => ("backup" \in Ours) # ("clean" \in Ours)

(***************************************************************************)
(* What the arguments rest on.                                             *)
(***************************************************************************)
\* The steps to do are the last ones of the plan, and may write where they do.
RunInv ==
  IF outcome = "running"
    THEN /\ Accepted(run.ctx, run.flags)
         /\ DirsWritten(run.ctx, run.flags) \subseteq writable
         /\ todo # {} /\ todo \subseteq Ours
         /\ \A op \in todo, d \in Ours \ todo : Rank[d] < Rank[op]
    ELSE todo = {}

Finished(op) == outcome \in {"running", "done"} /\ op \in Ours /\ op \notin todo

\* What each finished step has brought about.
StepInv ==
  /\ outcome = "running" /\ db # before => Finished("clean")
  /\ Finished("fetch") => fetched \in Versions
  /\ outcome = "running" /\ Finished("backup") =>
       \/ copy \in bin
       \/ /\ Finished("prune_bin") /\ copy # <<>>
          /\ Cardinality({v \in BinVersions : v > copy[2]}) >= Keep
  /\ Finished("prune_bin") => Cardinality(BinVersions) <= Keep
  /\ Finished("prune_csv") => Cardinality(csv) <= Keep

\* What verifies has a release.
Named == db.verifies => db.pointer # Absent

IInv ==
  TypeOK /\ RunInv /\ StepInv /\ Named /\ Secured /\ FetchedFirst /\ BuiltIsFetched
=============================================================================
