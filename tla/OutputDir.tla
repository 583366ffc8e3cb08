------------------------------ MODULE OutputDir ------------------------------
(***************************************************************************)
(* The output directory: the installed database, its manifests, the        *)
(* `version` pointer and the `orphaned` list, as build.rs installs and     *)
(* backup.rs verifies and deletes them, one xtgeoip process at a time.     *)
(*                                                                         *)
(* Every file operation is a step of its own, may fail, and the process    *)
(* may be killed before or in the middle of it: `fs::write` truncates the  *)
(* file it opens, so a write that does not finish leaves the file Cut.     *)
(*                                                                         *)
(* Names.  Country files are numbered in the order of their names, which   *)
(* is the order of the manifest's lines and of a deletion.  What a file    *)
(* holds is a Blob: two files verify against the same hash exactly when    *)
(* they hold the same blob.                                                *)
(***************************************************************************)
EXTENDS Integers, Functions

CONSTANTS
  Files,      \* the country files <CC>.iv4 and <CC>.iv6, numbered in name order
  Blobs,      \* what a whole country file may hold
  Versions,   \* release dates
  Sources,    \* inputs of a build: an archive together with the -l flag
  VersionOf,  \* [Sources -> Versions]
  Content,    \* for each source, the files its build writes and their blobs
  Unowned,    \* operator's files in the directory, none of them ours
  UnownedBlake3,  \* those of them whose name ends in .blake3
  Absent,     \* no such file
  Cut         \* a file truncated by a write that did not finish

\* What the lines of a manifest say: some of the files, each with its hash.
LineSets == UNION {[D -> Blobs] : D \in SUBSET Files}

(***************************************************************************)
(* Directory entries as an operation lists them.                           *)
(***************************************************************************)
Country(f)  == <<"country", f>>
Manifest(v) == <<"manifest", v>>
Foreign(u)  == <<"unowned", u>>
VersionFile == <<"meta", "version">>
OrphanList  == <<"meta", "orphaned">>

Entries ==
  {Country(f) : f \in Files} \cup {Manifest(v) : v \in Versions}
    \cup {Foreign(u) : u \in Unowned} \cup {VersionFile, OrphanList}

\* A manifest file; ragged when its last line is incomplete.
Manifests == [lines : LineSets, ragged : BOOLEAN]

ASSUME SourcesAssumption ==
  /\ Files \subseteq Nat
  /\ VersionOf \in [Sources -> Versions]
  /\ Content \in [Sources -> LineSets]
  \* A1, A2 and O1 are always countries, so no build writes nothing.
  /\ \A s \in Sources : DOMAIN Content[s] # {}
  /\ UnownedBlake3 \subseteq Unowned
  /\ Absent \notin Blobs \cup Versions
  /\ \A m \in Manifests : Absent # m
  /\ \A E \in SUBSET Entries : Absent # E
  /\ Cut \notin Blobs \cup Versions \cup {Absent}

VARIABLES
  data,      \* data[f]: what country file f holds
  manifest,  \* manifest[v]: GeoLite2-Country-bin_<v>.blake3
  version,   \* the version file
  orphaned,  \* the entries the orphaned file lists
  unowned,   \* the operator's files still there
  pc,        \* the step of the running operation, or "idle"
  source,    \* what the running or last build installs
  mode,      \* the mode of the running deletion
  todo,      \* entries the running step has still to write or unlink
  failed,    \* entries whose write or unlink failed in this operation
  report     \* how the last operation ended

dirVars == <<data, manifest, version, orphaned, unowned>>
procVars == <<pc, source, mode, todo, failed, report>>
vars == <<data, manifest, version, orphaned, unowned,
          pc, source, mode, todo, failed, report>>

Modes   == {"Verified", "Force"}
Phases  == {"idle", "write", "manifest", "version", "sweep", "delete"}
Reports == {"none", "built", "deleted", "failed", "killed"}

TypeOK ==
  /\ data \in [Files -> Blobs \cup {Absent, Cut}]
  /\ manifest \in [Versions -> Manifests \cup {Absent}]
  /\ version \in Versions \cup {Absent, Cut}
  /\ orphaned \in (SUBSET Entries) \cup {Absent}
  /\ unowned \in SUBSET Unowned
  /\ pc \in Phases
  /\ source \in Sources
  /\ mode \in Modes
  /\ todo \in SUBSET Entries
  /\ failed \in SUBSET Entries
  /\ report \in Reports

\* A directory no build has written to yet.
Init ==
  /\ data = [f \in Files |-> Absent]
  /\ manifest = [v \in Versions |-> Absent]
  /\ version = Absent
  /\ orphaned = Absent
  /\ unowned = Unowned
  /\ pc = "idle"
  /\ source \in Sources
  /\ mode = "Verified"
  /\ todo = {}
  /\ failed = {}
  /\ report = "none"

(***************************************************************************)
(* Verification, as gather_files does it before a deletion or a backup     *)
(* without -f: the version file names a manifest, the manifest is there    *)
(* and well formed, and every file it lists is there with that hash.       *)
(***************************************************************************)
Pointed == version \in Versions /\ manifest[version] # Absent

\* Faulty: a listed file only has to be there.
MatchesByName(m) == \A f \in DOMAIN m.lines : data[f] # Absent

Matches(m) == \A f \in DOMAIN m.lines : data[f] = m.lines[f]

Verifies == Pointed /\ ~manifest[version].ragged /\ Matches(manifest[version])

\* verify_manifest_files returns the listed files, gather_files adds the rest.
Vouched == {Country(f) : f \in DOMAIN manifest[version].lines}

\* Faulty: every country file is taken, listed or not.
VerifiedEntriesGlob ==
  {Country(f) : f \in {g \in Files : data[g] # Absent}} \cup {VersionFile, Manifest(version)}

VerifiedEntries == Vouched \cup {VersionFile, Manifest(version)}

(***************************************************************************)
(* The force path takes what the names say: every <CC>.iv4 and <CC>.iv6,   *)
(* the version file, and everything called *.blake3.                       *)
(***************************************************************************)
CountriesPresent == {Country(f) : f \in {g \in Files : data[g] # Absent}}

Blake3Present ==
  {Manifest(v) : v \in {w \in Versions : manifest[w] # Absent}}
    \cup {Foreign(u) : u \in unowned \cap UnownedBlake3}

ForceGathered ==
  CountriesPresent \cup Blake3Present
    \cup {e \in {VersionFile} : version # Absent}

ForceEntries == ForceGathered \cup {e \in {OrphanList} : orphaned # Absent}

(***************************************************************************)
(* What is left of a text file cut short by fs::write: whole lines from    *)
(* the front, and perhaps the beginning of one more.                       *)
(***************************************************************************)
Fronts(lines) ==
  {Restrict(lines, D) : D \in {E \in SUBSET DOMAIN lines :
     \A f \in E, g \in DOMAIN lines : g < f => g \in E}}

CutManifests(lines) ==
  {m \in [lines : Fronts(lines), ragged : BOOLEAN] : m.ragged => m.lines # lines}

(***************************************************************************)
(* Deletion order: the country files by name, the version file, then the   *)
(* manifests and the orphaned file.                                        *)
(***************************************************************************)
Before(d, e) ==
  \/ d[1] = "country" /\ (e[1] = "country" => d[2] < e[2])
  \/ d = VersionFile /\ e[1] # "country"
  \/ d[1] \in {"manifest", "unowned"} /\ e = OrphanList

FirstOf(E) == {e \in E : ~ \E d \in E : d # e /\ Before(d, e)}

(***************************************************************************)
(* Building: load, write every country file (in parallel, so in any        *)
(* order), then the manifest, then the version file, then sweep.           *)
(***************************************************************************)
End(how) == pc' = "idle" /\ report' = how

\* build up to write_outputs.  Loading the source may fail; nothing is
\* written before both block files and the locations have been read.
StartBuild(s) ==
  /\ pc = "idle"
  /\ source' = s
  /\ pc' = "write"
  /\ report' = "none"
  /\ todo' = {Country(f) : f \in DOMAIN Content[s]}
  /\ failed' = {}
  /\ UNCHANGED <<dirVars, mode>>

LoadFails ==
  /\ pc = "idle"
  /\ End("failed")
  /\ failed' = {}
  /\ UNCHANGED <<dirVars, source, mode, todo>>

\* Faulty: the error of a failed write is dropped.
WriteCountryUnchecked(f) ==
  /\ pc = "write"
  /\ Country(f) \in todo
  /\ todo' = todo \ {Country(f)}
  /\ \E b \in {Content[source][f], data[f], Cut} : data' = [data EXCEPT ![f] = b]
  /\ UNCHANGED <<manifest, version, orphaned, unowned, pc, source, mode, failed, report>>

WriteCountry(f) ==
  /\ pc = "write"
  /\ Country(f) \in todo
  /\ todo' = todo \ {Country(f)}
  /\ \/ /\ data' = [data EXCEPT ![f] = Content[source][f]]
        /\ UNCHANGED failed
     \/ /\ \E b \in {data[f], Cut} : data' = [data EXCEPT ![f] = b]
        /\ failed' = failed \cup {Country(f)}
  /\ UNCHANGED <<manifest, version, orphaned, unowned, pc, source, mode, report>>

\* The hashes of the files that were written, in name order.
Checksums ==
  Restrict(Content[source], {f \in DOMAIN Content[source] : Country(f) \notin failed})

\* Faulty: failed writes do not stop the build.
WritesDoneRegardless ==
  /\ pc = "write"
  /\ todo = {}
  /\ pc' = "manifest"
  /\ UNCHANGED <<dirVars, source, mode, todo, failed, report>>

WritesDone ==
  /\ pc = "write"
  /\ todo = {}
  /\ IF failed = {} THEN pc' = "manifest" /\ UNCHANGED report ELSE End("failed")
  /\ failed' = {}
  /\ UNCHANGED <<dirVars, source, mode, todo>>

WriteManifest ==
  /\ pc = "manifest"
  /\ manifest' = [manifest EXCEPT ![VersionOf[source]] =
                    [lines |-> Checksums, ragged |-> FALSE]]
  /\ pc' = "version"
  /\ UNCHANGED <<data, version, orphaned, unowned, source, mode, todo, failed, report>>

\* The write fails, or the process dies in it: not begun, or cut.
WriteManifestStops(how) ==
  /\ pc = "manifest"
  /\ \E m \in CutManifests(Checksums) \cup {manifest[VersionOf[source]]} :
       manifest' = [manifest EXCEPT ![VersionOf[source]] = m]
  /\ End(how)
  /\ UNCHANGED <<data, version, orphaned, unowned, source, mode, todo, failed>>

\* Faulty: the manifest just written is taken for stale with the others.
StaleManifestsAll == {Manifest(w) : w \in {x \in Versions : manifest[x] # Absent}}

\* detect_orphans takes the manifests of other versions for stale.
StaleManifests ==
  {Manifest(w) : w \in {x \in Versions \ {VersionOf[source]} : manifest[x] # Absent}}

WriteVersion ==
  /\ pc = "version"
  /\ version' = VersionOf[source]
  /\ pc' = "sweep"
  /\ todo' = StaleManifests
  /\ UNCHANGED <<data, manifest, orphaned, unowned, source, mode, failed, report>>

\* Not begun, cut within the date, or cut after it, where trim() needs no more.
WriteVersionStops(how) ==
  /\ pc = "version"
  /\ version' \in {version, Cut, VersionOf[source]}
  /\ End(how)
  /\ UNCHANGED <<data, manifest, orphaned, unowned, source, mode, todo, failed>>

\* A stale manifest that cannot be unlinked is a warning.
SweepManifest(w) ==
  /\ pc = "sweep"
  /\ Manifest(w) \in todo
  /\ todo' = todo \ {Manifest(w)}
  /\ \/ /\ manifest' = [manifest EXCEPT ![w] = Absent]
        /\ UNCHANGED failed
     \/ /\ failed' = failed \cup {Manifest(w)}
        /\ UNCHANGED manifest
  /\ UNCHANGED <<data, version, orphaned, unowned, pc, source, mode, report>>

\* Faulty: with an orphaned file already there, nothing is listed.
StaleCountriesOnce ==
  {Country(f) : f \in {g \in Files \ DOMAIN Content[source] :
                         data[g] # Absent /\ orphaned = Absent}}

StaleCountries ==
  {Country(f) : f \in {g \in Files \ DOMAIN Content[source] : data[g] # Absent}}

\* The list the operation is about to write to the orphaned file, and what is
\* left of it when that write is cut: a build lists in directory order, which
\* is any order, a deletion in the order it unlinks.
Listing == IF pc = "sweep" THEN StaleCountries ELSE failed

CutListings ==
  {L \in SUBSET Listing :
     pc = "delete" => \A e \in L, d \in Listing : Before(d, e) => d \in L}

\* With no stale country file the orphaned file is left as it is; failing to
\* write it is a warning.
ListOrphans ==
  /\ pc = "sweep"
  /\ todo = {}
  /\ \/ Listing = {} /\ UNCHANGED <<orphaned, failed>>
     \/ Listing # {} /\ orphaned' = Listing /\ UNCHANGED failed
     \/ /\ Listing # {}
        /\ orphaned' \in CutListings \cup {orphaned}
        /\ failed' = failed \cup {OrphanList}
  /\ End("built")
  /\ UNCHANGED <<data, manifest, version, unowned, source, mode, todo>>

(***************************************************************************)
(* Deleting.                                                               *)
(***************************************************************************)
\* What delete lists; nothing when gather_files refuses or finds no file.
ToDelete(m) ==
  IF m = "Verified"
    THEN IF Verifies /\ Vouched # {} THEN VerifiedEntries ELSE {}
    ELSE IF ForceGathered # {} THEN ForceEntries ELSE {}

DeleteRefused(m) ==
  /\ pc = "idle"
  /\ ToDelete(m) = {}
  /\ End("failed")
  /\ failed' = {}
  /\ UNCHANGED <<dirVars, source, mode, todo>>

StartDelete(m) ==
  /\ pc = "idle"
  /\ ToDelete(m) # {}
  /\ todo' = ToDelete(m)
  /\ mode' = m
  /\ pc' = "delete"
  /\ report' = "none"
  /\ failed' = {}
  /\ UNCHANGED <<dirVars, source>>

\* The directory without entry e.
Unlinked(e) ==
  /\ data' = [f \in Files |-> IF e = Country(f) THEN Absent ELSE data[f]]
  /\ manifest' = [v \in Versions |-> IF e = Manifest(v) THEN Absent ELSE manifest[v]]
  /\ version' = IF e = VersionFile THEN Absent ELSE version
  /\ orphaned' = IF e = OrphanList THEN Absent ELSE orphaned
  /\ unowned' = {u \in unowned : e # Foreign(u)}

\* delete_all goes on past an unlink that fails.
Unlink(e) ==
  /\ pc = "delete"
  /\ e \in FirstOf(todo)
  /\ todo' = todo \ {e}
  /\ \/ Unlinked(e) /\ UNCHANGED failed
     \/ failed' = failed \cup {e} /\ UNCHANGED dirVars
  /\ UNCHANGED <<pc, source, mode, report>>

\* What could not be deleted replaces the orphaned list, if that write works.
DeleteDone ==
  /\ pc = "delete"
  /\ todo = {}
  /\ \/ Listing = {} /\ End("deleted") /\ UNCHANGED orphaned
     \/ /\ Listing # {}
        /\ orphaned' \in {Listing, orphaned} \cup CutListings
        /\ End("failed")
  /\ failed' = {}
  /\ mode' = "Verified"
  /\ UNCHANGED <<data, manifest, version, unowned, source, todo>>

(***************************************************************************)
(* The process is killed.  The files it was writing at that moment, several *)
(* country files at once among them, are cut.                              *)
(***************************************************************************)
Killed ==
  /\ pc \in {"write", "sweep", "delete"}
  /\ End("killed")
  /\ IF pc = "write"
       THEN \E T \in SUBSET todo :
              data' = [f \in Files |-> IF Country(f) \in T THEN Cut ELSE data[f]]
       ELSE UNCHANGED data
  /\ IF pc # "write" /\ todo = {} /\ Listing # {}
       THEN orphaned' \in CutListings \cup {orphaned}
       ELSE UNCHANGED orphaned
  /\ todo' = {}
  /\ failed' = {}
  /\ mode' = "Verified"
  /\ UNCHANGED <<manifest, version, unowned, source>>

Build ==
  \/ \E s \in Sources : StartBuild(s)
  \/ LoadFails
  \/ \E f \in Files : WriteCountry(f)
  \/ WritesDone
  \/ WriteManifest
  \/ WriteVersion
  \/ \E how \in {"failed", "killed"} : WriteManifestStops(how) \/ WriteVersionStops(how)
  \/ \E w \in Versions : SweepManifest(w)
  \/ ListOrphans

Delete ==
  \/ \E m \in Modes : StartDelete(m) \/ DeleteRefused(m)
  \/ \E e \in Entries : Unlink(e)
  \/ DeleteDone

Next == Build \/ Delete \/ Killed

Spec == Init /\ [][Next]_vars

-----------------------------------------------------------------------------
(***************************************************************************)
(* Properties.                                                             *)
(***************************************************************************)

\* A build that reports success leaves a database that verifies: the version
\* file names the manifest of the release it was given, and that manifest
\* lists exactly the files of this build, all there with this build's content
\* (build.rs build, backup.rs gather_files).
BuiltVerifies ==
  report = "built" =>
    /\ Verifies
    /\ version = VersionOf[source]
    /\ manifest[version].lines = Content[source]

\* Whatever is on disk after crashes and failed writes, an operation that
\* passes verification never takes in a mixture of two builds: all it lists
\* was written by one build, with nothing left out before its last line
\* (build.rs write_outputs and generate_manifest, backup.rs
\* verify_manifest_files).
VerifiedIsOneBuild ==
  Verifies =>
    \E s \in Sources :
      /\ manifest[version].lines \in Fronts(Content[s])
      /\ \A f \in DOMAIN manifest[version].lines : data[f] = Content[s][f]

\* The version file is only ever moved to a release whose whole database is
\* already on disk and vouched for (generate_manifest: the manifest first, the
\* pointer last).
PointerMovesLast ==
  [][version' # version /\ version' \in Versions => Verifies']_vars

\* The version file is left naming a manifest that is not there only by a
\* deletion that could not unlink the version file itself; no build, crash or
\* other failure does it (generate_manifest, delete, delete_all).
Dangling == version \in Versions /\ manifest[version] = Absent

PointerKept ==
  [][~Dangling /\ Dangling' => pc = "delete" /\ VersionFile \in failed]_vars

\* Without -f, the manifest in force still vouches for every country file at
\* the moment it is unlinked, so a deletion that is killed or fails half way
\* has removed no file of the operator's or of another build, and the record
\* of what remains is still there (gather_files, delete).
VouchedDelete ==
  [][\A f \in Files :
       data[f] # Absent /\ data'[f] = Absent =>
         \/ mode = "Force"
         \/ /\ Pointed
            /\ f \in DOMAIN manifest[version].lines
            /\ data[f] = manifest[version].lines[f]]_vars

\* After a successful build every country file the manifest does not list is
\* in the orphaned file, and no other manifest is left, unless the build was
\* refused that very write or unlink (detect_orphans).
SweepIsComplete ==
  report = "built" =>
    /\ \A v \in Versions \ {version} :
         manifest[v] # Absent => Manifest(v) \in failed
    /\ \A f \in Files \ DOMAIN manifest[version].lines :
         data[f] # Absent =>
           OrphanList \in failed \/ (orphaned # Absent /\ Country(f) \in orphaned)

-----------------------------------------------------------------------------
(***************************************************************************)
(* The invariant behind them: what each step of an operation may rely on.  *)
(***************************************************************************)

\* No build takes the name of a file it has yet to write for one it wrote.
WriteInv ==
  pc = "write" =>
    /\ todo \subseteq {Country(f) : f \in DOMAIN Content[source]}
    /\ \A f \in DOMAIN Content[source] :
         Country(f) \in todo \cup failed \/ data[f] = Content[source][f]

\* From the first byte of the manifest on, the database is on disk, whole.
WholeInv ==
  pc \in {"manifest", "version", "sweep"} =>
    /\ pc = "manifest" => failed = {}
    /\ \A f \in DOMAIN Content[source] : data[f] = Content[source][f]

\* The pointer is moved, and the sweep begun, under a whole manifest; the
\* sweep spares that manifest and misses no other.
VouchInv ==
  /\ pc \in {"version", "sweep"} =>
       manifest[VersionOf[source]] = [lines |-> Content[source], ragged |-> FALSE]
  /\ pc = "sweep" =>
       /\ version = VersionOf[source]
       /\ Manifest(version) \notin todo
       /\ \A v \in Versions \ {version} :
            manifest[v] # Absent => Manifest(v) \in todo \cup failed

\* Every manifest is the front of the manifest of some build.
LinesInv ==
  \A v \in Versions : manifest[v] # Absent =>
    \E s \in Sources : manifest[v].lines \in Fronts(Content[s])

\* A deletion has the version file before it or behind it, and a verified one
\* has nothing before it that the manifest does not vouch for.
DeleteInv ==
  pc = "delete" =>
    /\ version # Absent => VersionFile \in todo \cup failed
    /\ mode = "Verified" =>
         \A f \in Files : Country(f) \in todo =>
           /\ Pointed
           /\ f \in DOMAIN manifest[version].lines
           /\ data[f] = manifest[version].lines[f]

IInv ==
  /\ TypeOK
  /\ pc # "idle" => report = "none"
  /\ WriteInv
  /\ WholeInv
  /\ VouchInv
  /\ LinesInv
  /\ DeleteInv
  /\ BuiltVerifies
  /\ SweepIsComplete
=============================================================================
