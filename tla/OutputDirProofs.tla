-------------------------- MODULE OutputDirProofs ---------------------------
(***************************************************************************)
(* Proofs about OutputDir, for every set of files, releases and builds:    *)
(* the invariant IInv, the invariants and the action properties that       *)
(* follow from it.                                                         *)
(***************************************************************************)
EXTENDS OutputDir, TLAPS

-----------------------------------------------------------------------------
(***************************************************************************)
(* Entries of different kinds, or of different names, are different.       *)
(***************************************************************************)
LEMMA EntryKinds ==
  /\ \A f, g : Country(f) = Country(g) <=> f = g
  /\ \A v, w : Manifest(v) = Manifest(w) <=> v = w
  /\ \A f, v : Country(f) # Manifest(v)
  /\ \A f, u : Country(f) # Foreign(u)
  /\ \A v, u : Manifest(v) # Foreign(u)
  /\ \A f : Country(f) # VersionFile /\ Country(f) # OrphanList
  /\ \A v : Manifest(v) # VersionFile /\ Manifest(v) # OrphanList
  /\ \A u : Foreign(u) # VersionFile /\ Foreign(u) # OrphanList
  /\ VersionFile # OrphanList
BY DEF Country, Manifest, Foreign, VersionFile, OrphanList

LEMMA EntryTypes ==
  /\ \A f \in Files : Country(f) \in Entries
  /\ \A v \in Versions : Manifest(v) \in Entries
  /\ \A u \in Unowned : Foreign(u) \in Entries
  /\ VersionFile \in Entries
  /\ OrphanList \in Entries
BY DEF Entries

\* A deletion reaches a manifest only when the version file is behind it.
LEMMA VersionFileFirst ==
  ASSUME NEW E, NEW v, Manifest(v) \in FirstOf(E)
  PROVE  VersionFile \notin E
BY DEF FirstOf, Before, Manifest, VersionFile

(***************************************************************************)
(* Sets of lines: what a build writes, and what is left of it when cut.    *)
(***************************************************************************)
LEMMA LineSetsType ==
  ASSUME NEW L
  PROVE  L \in LineSets <=> \E D \in SUBSET Files : L \in [D -> Blobs]
BY DEF LineSets

LEMMA ContentType ==
  ASSUME NEW s \in Sources
  PROVE  /\ Content[s] \in LineSets
         /\ DOMAIN Content[s] \subseteq Files
         /\ DOMAIN Content[s] # {}
         /\ \A f \in DOMAIN Content[s] : Content[s][f] \in Blobs
<1>1. Content[s] \in LineSets /\ DOMAIN Content[s] # {}
  BY SourcesAssumption
<1>2. PICK D \in SUBSET Files : Content[s] \in [D -> Blobs]
  BY <1>1, LineSetsType
<1> QED
  BY <1>1, <1>2

LEMMA RestrictType ==
  ASSUME NEW L \in LineSets, NEW D \in SUBSET DOMAIN L
  PROVE  Restrict(L, D) \in LineSets
<1>1. PICK E \in SUBSET Files : L \in [E -> Blobs]
  BY LineSetsType
<1>2. Restrict(L, D) \in [D -> Blobs]
  BY <1>1 DEF Restrict
<1>3. D \in SUBSET Files
  BY <1>1
<1> QED
  BY <1>2, <1>3, LineSetsType

LEMMA FrontsType ==
  ASSUME NEW L \in LineSets
  PROVE  Fronts(L) \subseteq LineSets
BY RestrictType DEF Fronts

LEMMA WholeIsFront ==
  ASSUME NEW L \in LineSets
  PROVE  L \in Fronts(L)
<1>1. PICK E \in SUBSET Files : L \in [E -> Blobs]
  BY LineSetsType
<1>2. Restrict(L, DOMAIN L) = L
  BY <1>1 DEF Restrict
<1> QED
  BY <1>2 DEF Fronts

\* With no failed write the manifest lists what the build was to install.
LEMMA ChecksumsWhole ==
  ASSUME source \in Sources, failed = {}
  PROVE  Checksums = Content[source]
<1>1. PICK E \in SUBSET Files : Content[source] \in [E -> Blobs]
  BY ContentType, LineSetsType
<1> QED
  BY <1>1 DEF Checksums, Restrict

-----------------------------------------------------------------------------
(***************************************************************************)
(* IInv holds in an empty directory, and each action preserves it.         *)
(***************************************************************************)
LEMMA InitInv == Init => IInv
<1> SUFFICES ASSUME Init PROVE IInv
  OBVIOUS
<1>1. TypeOK
  BY DEF Init, TypeOK, Entries, Modes, Phases, Reports
<1> QED
  BY <1>1 DEF Init, IInv, WriteInv, WholeInv, VouchInv, LinesInv, DeleteInv,
              BuiltVerifies, SweepIsComplete

LEMMA StartBuildInv ==
  ASSUME IInv, NEW s \in Sources, StartBuild(s)
  PROVE  IInv'
<1> USE DEF IInv, StartBuild, dirVars
<1>1. TypeOK'
  BY ContentType, EntryTypes DEF TypeOK, Phases, Reports
<1>2. WriteInv'
  BY DEF WriteInv
<1>3. LinesInv'
  BY DEF LinesInv
<1> QED
  BY <1>1, <1>2, <1>3
  DEF WholeInv, VouchInv, DeleteInv, BuiltVerifies, SweepIsComplete

LEMMA LoadFailsInv ==
  ASSUME IInv, LoadFails
  PROVE  IInv'
<1> USE DEF IInv, LoadFails, End, dirVars
<1>1. TypeOK'
  BY DEF TypeOK, Phases, Reports
<1>2. LinesInv'
  BY DEF LinesInv
<1> QED
  BY <1>1, <1>2
  DEF WriteInv, WholeInv, VouchInv, DeleteInv, BuiltVerifies, SweepIsComplete

LEMMA WriteCountryInv ==
  ASSUME IInv, NEW f \in Files, WriteCountry(f)
  PROVE  IInv'
<1> USE DEF IInv, WriteCountry
<1>1. f \in DOMAIN Content[source] /\ source \in Sources
  BY EntryKinds DEF WriteInv, TypeOK
<1>2. Content[source][f] \in Blobs
  BY <1>1, ContentType
<1>3. TypeOK'
  BY <1>2, EntryTypes DEF TypeOK
<1>4. WriteInv'
  <2>1. todo' \subseteq {Country(g) : g \in DOMAIN Content[source]}
    BY DEF WriteInv
  <2>2. ASSUME NEW g \in DOMAIN Content[source]
        PROVE  Country(g) \in todo' \cup failed' \/ data'[g] = Content[source][g]
    <3>1. CASE g = f
      BY <3>1, <1>1 DEF TypeOK
    <3>2. CASE g # f
      BY <3>2, <1>1, EntryKinds, ContentType DEF WriteInv, TypeOK
    <3> QED
      BY <3>1, <3>2
  <2> QED
    BY <2>1, <2>2 DEF WriteInv
<1>5. LinesInv'
  BY DEF LinesInv
<1> QED
  BY <1>3, <1>4, <1>5
  DEF WholeInv, VouchInv, DeleteInv, BuiltVerifies, SweepIsComplete

LEMMA WritesDoneInv ==
  ASSUME IInv, WritesDone
  PROVE  IInv'
<1> USE DEF IInv, WritesDone, End, dirVars
<1>1. TypeOK'
  BY DEF TypeOK, Phases, Reports
<1>2. WholeInv'
  BY DEF WriteInv, WholeInv
<1>3. LinesInv'
  BY DEF LinesInv
<1> QED
  BY <1>1, <1>2, <1>3
  DEF WriteInv, VouchInv, DeleteInv, BuiltVerifies, SweepIsComplete

LEMMA WriteManifestInv ==
  ASSUME IInv, WriteManifest
  PROVE  IInv'
<1> USE DEF IInv, WriteManifest
<1>1. source \in Sources /\ VersionOf[source] \in Versions
  BY SourcesAssumption DEF TypeOK
<1>2. Checksums = Content[source] /\ Content[source] \in LineSets
  BY <1>1, ChecksumsWhole, ContentType DEF WholeInv
<1>3. TypeOK'
  BY <1>1, <1>2 DEF TypeOK, Phases, Manifests
<1>4. VouchInv'
  BY <1>1, <1>2 DEF VouchInv, TypeOK
<1>5. LinesInv'
  BY <1>1, <1>2, WholeIsFront DEF LinesInv, TypeOK
<1> QED
  BY <1>3, <1>4, <1>5
  DEF WriteInv, WholeInv, DeleteInv, BuiltVerifies, SweepIsComplete

LEMMA WriteManifestStopsInv ==
  ASSUME IInv, NEW how \in {"failed", "killed"}, WriteManifestStops(how)
  PROVE  IInv'
<1> USE DEF IInv, WriteManifestStops, End
<1>1. source \in Sources /\ VersionOf[source] \in Versions
  BY SourcesAssumption DEF TypeOK
<1>2. Checksums = Content[source] /\ Content[source] \in LineSets
  BY <1>1, ChecksumsWhole, ContentType DEF WholeInv
<1>3. \A m \in CutManifests(Checksums) :
        m \in Manifests /\ m.lines \in Fronts(Content[source])
  BY <1>2, FrontsType DEF CutManifests, Manifests
<1>4. TypeOK'
  BY <1>1, <1>3 DEF TypeOK, Phases, Reports
<1>5. LinesInv'
  BY <1>1, <1>3 DEF LinesInv, TypeOK
<1> QED
  BY <1>4, <1>5
  DEF WriteInv, WholeInv, VouchInv, DeleteInv, BuiltVerifies, SweepIsComplete

LEMMA WriteVersionInv ==
  ASSUME IInv, WriteVersion
  PROVE  IInv'
<1> USE DEF IInv, WriteVersion
<1>1. source \in Sources /\ VersionOf[source] \in Versions
  BY SourcesAssumption DEF TypeOK
<1>2. TypeOK'
  BY <1>1, EntryTypes DEF TypeOK, Phases, StaleManifests
<1>3. VouchInv'
  BY <1>1, EntryKinds DEF VouchInv, StaleManifests
<1>4. LinesInv'
  BY DEF LinesInv
<1> QED
  BY <1>2, <1>3, <1>4
  DEF WriteInv, WholeInv, DeleteInv, BuiltVerifies, SweepIsComplete

LEMMA WriteVersionStopsInv ==
  ASSUME IInv, NEW how \in {"failed", "killed"}, WriteVersionStops(how)
  PROVE  IInv'
<1> USE DEF IInv, WriteVersionStops, End
<1>1. TypeOK'
  BY SourcesAssumption DEF TypeOK, Phases, Reports
<1>2. LinesInv'
  BY DEF LinesInv
<1> QED
  BY <1>1, <1>2
  DEF WriteInv, WholeInv, VouchInv, DeleteInv, BuiltVerifies, SweepIsComplete

LEMMA SweepManifestInv ==
  ASSUME IInv, NEW w \in Versions, SweepManifest(w)
  PROVE  IInv'
<1> USE DEF IInv, SweepManifest
<1>1. w # version /\ version = VersionOf[source] /\ version \in Versions
  BY SourcesAssumption DEF VouchInv, TypeOK
<1>2. TypeOK'
  BY EntryTypes DEF TypeOK
<1>3. VouchInv'
  <2>1. manifest'[version] = manifest[version] /\ Manifest(version) \notin todo'
    BY <1>1 DEF VouchInv, TypeOK
  <2>2. ASSUME NEW v \in Versions \ {version}, manifest'[v] # Absent
        PROVE  Manifest(v) \in todo' \cup failed'
    BY <2>2, EntryKinds DEF VouchInv, TypeOK
  <2> QED
    BY <1>1, <2>1, <2>2 DEF VouchInv
<1>4. LinesInv'
  BY DEF LinesInv, TypeOK
<1> QED
  BY <1>2, <1>3, <1>4
  DEF WriteInv, WholeInv, DeleteInv, BuiltVerifies, SweepIsComplete

\* The entries the orphaned file may be made to list are entries.
LEMMA ListingType ==
  ASSUME TypeOK
  PROVE  Listing \in SUBSET Entries /\ CutListings \subseteq SUBSET Entries
BY EntryTypes DEF TypeOK, Listing, CutListings, StaleCountries

LEMMA ListOrphansInv ==
  ASSUME IInv, ListOrphans
  PROVE  IInv'
<1> USE DEF IInv, ListOrphans, End
<1>1. TypeOK'
  BY ListingType, EntryTypes DEF TypeOK, Phases, Reports
<1>2. LinesInv'
  BY DEF LinesInv
<1>3. /\ source \in Sources
      /\ version = VersionOf[source]
      /\ version \in Versions
      /\ manifest[version] = [lines |-> Content[source], ragged |-> FALSE]
      /\ \A f \in DOMAIN Content[source] : data[f] = Content[source][f]
  BY SourcesAssumption DEF VouchInv, WholeInv, TypeOK
<1>4. BuiltVerifies'
  <2>1. manifest[version] \in Manifests /\ manifest[version] # Absent
    <3>1. manifest[version] \in Manifests
      BY <1>3, ContentType DEF Manifests
    <3> QED
      BY <3>1, SourcesAssumption
  <2> QED
    BY <1>3, <2>1 DEF BuiltVerifies, Verifies, Pointed, Matches
<1>5. SweepIsComplete'
  <2>1. \A v \in Versions \ {version} : manifest[v] # Absent => Manifest(v) \in failed'
    BY DEF VouchInv
  <2>2. ASSUME NEW f \in Files \ DOMAIN manifest[version].lines, data[f] # Absent
        PROVE  OrphanList \in failed' \/ (orphaned' # Absent /\ Country(f) \in orphaned')
    <3>1. Country(f) \in Listing
      BY <1>3, <2>2 DEF Listing, StaleCountries
    <3>2. Listing # Absent
      BY ListingType, SourcesAssumption
    <3> QED
      BY <3>1, <3>2
  <2> QED
    BY <2>1, <2>2 DEF SweepIsComplete
<1> QED
  BY <1>1, <1>2, <1>4, <1>5 DEF WriteInv, WholeInv, VouchInv, DeleteInv

LEMMA DeleteRefusedInv ==
  ASSUME IInv, NEW m \in Modes, DeleteRefused(m)
  PROVE  IInv'
<1> USE DEF IInv, DeleteRefused, End, dirVars
<1>1. TypeOK'
  BY DEF TypeOK, Phases, Reports
<1>2. LinesInv'
  BY DEF LinesInv
<1> QED
  BY <1>1, <1>2
  DEF WriteInv, WholeInv, VouchInv, DeleteInv, BuiltVerifies, SweepIsComplete

\* What a deletion lists are entries, the version file among them when it is
\* there; without -f only what the manifest vouches for.
LEMMA ToDeleteFacts ==
  ASSUME TypeOK, NEW m \in Modes
  PROVE  /\ ToDelete(m) \in SUBSET Entries
         /\ version # Absent /\ ToDelete(m) # {} => VersionFile \in ToDelete(m)
         /\ m = "Verified" =>
              \A f \in Files : Country(f) \in ToDelete(m) =>
                /\ Verifies
                /\ f \in DOMAIN manifest[version].lines
<1> USE DEF TypeOK, ToDelete
<1>1. CASE m = "Verified" /\ Verifies /\ Vouched # {}
  <2>1. version \in Versions /\ manifest[version] \in Manifests
    BY <1>1 DEF Verifies, Pointed
  <2>2. DOMAIN manifest[version].lines \subseteq Files
    BY <2>1, LineSetsType DEF Manifests
  <2>3. ToDelete(m) = VerifiedEntries
    BY <1>1
  <2> QED
    BY <1>1, <2>1, <2>2, <2>3, EntryTypes, EntryKinds DEF VerifiedEntries, Vouched
<1>2. CASE m # "Verified" /\ ForceGathered # {}
  <2>1. ToDelete(m) = ForceEntries
    BY <1>2
  <2>2. ForceEntries \in SUBSET Entries
    BY EntryTypes DEF ForceEntries, ForceGathered, CountriesPresent, Blake3Present
  <2>3. version # Absent => VersionFile \in ForceEntries
    BY DEF ForceEntries, ForceGathered
  <2> QED
    BY <1>2, <2>1, <2>2, <2>3
<1>3. CASE ToDelete(m) = {}
  BY <1>3
<1> QED
  BY <1>1, <1>2, <1>3

LEMMA StartDeleteInv ==
  ASSUME IInv, NEW m \in Modes, StartDelete(m)
  PROVE  IInv'
<1> USE DEF IInv, StartDelete, dirVars
<1>1. TypeOK'
  BY ToDeleteFacts DEF TypeOK, Phases, Reports
<1>2. DeleteInv'
  BY ToDeleteFacts DEF DeleteInv, Verifies, Pointed, Matches
<1>3. LinesInv'
  BY DEF LinesInv
<1> QED
  BY <1>1, <1>2, <1>3
  DEF WriteInv, WholeInv, VouchInv, BuiltVerifies, SweepIsComplete

LEMMA UnlinkInv ==
  ASSUME IInv, NEW e \in Entries, Unlink(e)
  PROVE  IInv'
<1> USE DEF IInv, Unlink
<1>1. e \in todo
  BY DEF FirstOf
<1>2. TypeOK'
  BY DEF TypeOK, Unlinked, dirVars
<1>3. LinesInv'
  BY DEF LinesInv, Unlinked, dirVars, TypeOK
<1>4. DeleteInv'
  <2>1. version' # Absent => VersionFile \in todo' \cup failed'
    BY <1>1 DEF DeleteInv, Unlinked, dirVars
  <2>2. ASSUME mode = "Verified", NEW f \in Files, Country(f) \in todo'
        PROVE  /\ Pointed'
               /\ f \in DOMAIN manifest'[version'].lines
               /\ data'[f] = manifest'[version'].lines[f]
    <3>1. Country(f) \in todo /\ Country(f) # e
      BY <2>2
    <3>2. /\ version \in Versions
          /\ manifest[version] # Absent
          /\ f \in DOMAIN manifest[version].lines
          /\ data[f] = manifest[version].lines[f]
      BY <2>2, <3>1 DEF DeleteInv, Pointed
    <3>3. e # VersionFile /\ \A v : e # Manifest(v)
      BY <3>1 DEF FirstOf, Before, Country, Manifest, VersionFile
    <3>4. version' = version /\ manifest'[version] = manifest[version] /\ data'[f] = data[f]
      BY <3>1, <3>2, <3>3 DEF Unlinked, dirVars, TypeOK
    <3> QED
      BY <3>2, <3>4 DEF Pointed
  <2> QED
    BY <2>1, <2>2 DEF DeleteInv
<1> QED
  BY <1>2, <1>3, <1>4
  DEF WriteInv, WholeInv, VouchInv, BuiltVerifies, SweepIsComplete

LEMMA DeleteDoneInv ==
  ASSUME IInv, DeleteDone
  PROVE  IInv'
<1> USE DEF IInv, DeleteDone, End
<1>1. TypeOK'
  BY ListingType DEF TypeOK, Phases, Reports, Modes
<1>2. LinesInv'
  BY DEF LinesInv
<1> QED
  BY <1>1, <1>2
  DEF WriteInv, WholeInv, VouchInv, DeleteInv, BuiltVerifies, SweepIsComplete

LEMMA KilledInv ==
  ASSUME IInv, Killed
  PROVE  IInv'
<1> USE DEF IInv, Killed, End
<1>1. TypeOK'
  BY ListingType DEF TypeOK, Phases, Reports, Modes
<1>2. LinesInv'
  BY DEF LinesInv
<1> QED
  BY <1>1, <1>2
  DEF WriteInv, WholeInv, VouchInv, DeleteInv, BuiltVerifies, SweepIsComplete

LEMMA StutterInv ==
  ASSUME IInv, UNCHANGED vars
  PROVE  IInv'
BY DEF IInv, vars, TypeOK, WriteInv, WholeInv, VouchInv, LinesInv, DeleteInv, Pointed,
       BuiltVerifies, Verifies, Matches, SweepIsComplete

LEMMA NextInv == IInv /\ [Next]_vars => IInv'
BY StartBuildInv, LoadFailsInv, WriteCountryInv, WritesDoneInv, WriteManifestInv,
   WriteManifestStopsInv, WriteVersionInv, WriteVersionStopsInv, SweepManifestInv,
   ListOrphansInv, DeleteRefusedInv, StartDeleteInv, UnlinkInv, DeleteDoneInv,
   KilledInv, StutterInv
DEF Next, Build, Delete

-----------------------------------------------------------------------------
(***************************************************************************)
(* The theorems.                                                           *)
(***************************************************************************)

\* Every reachable state of the output directory satisfies IInv.
THEOREM Invariance == Spec => []IInv
BY InitInv, NextInv, PTL DEF Spec

\* Type correctness.
THEOREM TypeCorrect == Spec => []TypeOK
<1>1. IInv => TypeOK
  BY DEF IInv
<1> QED
  BY <1>1, Invariance, PTL

\* A build that reports success leaves a database that verifies and is the one
\* it was to install (build, gather_files), however many crashed or failed
\* builds and deletions came before it.
THEOREM BuildInstalls == Spec => []BuiltVerifies
<1>1. IInv => BuiltVerifies
  BY DEF IInv
<1> QED
  BY <1>1, Invariance, PTL

\* After a successful build no stale manifest is left and no stale country
\* file is unlisted, but for the unlinks and the write the build was refused
\* (detect_orphans).
THEOREM SweepCompletes == Spec => []SweepIsComplete
<1>1. IInv => SweepIsComplete
  BY DEF IInv
<1> QED
  BY <1>1, Invariance, PTL

\* Before the version file is written, the manifest it will name is there.
LEMMA VouchedIsThere ==
  ASSUME IInv, pc \in {"version", "sweep"}
  PROVE  manifest[VersionOf[source]] # Absent
<1>1. manifest[VersionOf[source]] = [lines |-> Content[source], ragged |-> FALSE]
  BY DEF IInv, VouchInv
<1>2. [lines |-> Content[source], ragged |-> FALSE] \in Manifests
  BY ContentType DEF IInv, TypeOK, Manifests
<1> QED
  BY <1>1, <1>2, SourcesAssumption

\* Verification never passes on a mixture of two builds
\* (verify_manifest_files).
THEOREM NoMixtureVerifies == Spec => []VerifiedIsOneBuild
<1>1. ASSUME IInv, Verifies
      PROVE  \E s \in Sources :
               /\ manifest[version].lines \in Fronts(Content[s])
               /\ \A f \in DOMAIN manifest[version].lines : data[f] = Content[s][f]
  <2>1. version \in Versions /\ manifest[version] # Absent
    BY <1>1 DEF Verifies, Pointed
  <2>2. PICK s \in Sources : manifest[version].lines \in Fronts(Content[s])
    BY <1>1, <2>1 DEF IInv, LinesInv
  <2>3. \A f \in DOMAIN manifest[version].lines : manifest[version].lines[f] = Content[s][f]
    BY <2>2 DEF Fronts, Restrict
  <2> QED
    BY <1>1, <2>2, <2>3 DEF Verifies, Matches
<1>2. IInv => VerifiedIsOneBuild
  BY <1>1 DEF VerifiedIsOneBuild
<1> QED
  BY <1>2, Invariance, PTL

\* The version file is only moved to a release whose database is complete on
\* disk and vouched for (generate_manifest).
THEOREM PointerIsLast == Spec => PointerMovesLast
<1>1. ASSUME IInv, [Next]_vars, version' # version, version' \in Versions
      PROVE  Verifies'
  <2>1. pc = "version" /\ version' = VersionOf[source] /\ manifest' = manifest /\ data' = data
    BY <1>1, SourcesAssumption
    DEF Next, Build, Delete, vars, dirVars, StartBuild, LoadFails, WriteCountry,
        WritesDone, WriteManifest, WriteManifestStops, WriteVersion, WriteVersionStops,
        SweepManifest, ListOrphans, DeleteRefused, StartDelete, Unlink, Unlinked,
        DeleteDone, Killed
  <2>2. /\ manifest[VersionOf[source]] = [lines |-> Content[source], ragged |-> FALSE]
        /\ \A f \in DOMAIN Content[source] : data[f] = Content[source][f]
    BY <1>1, <2>1 DEF IInv, VouchInv, WholeInv
  <2>3. manifest[VersionOf[source]] # Absent
    BY <1>1, <2>1, VouchedIsThere
  <2> QED
    BY <1>1, <2>1, <2>2, <2>3 DEF Verifies, Pointed, Matches
<1>2. IInv /\ [Next]_vars => [version' # version /\ version' \in Versions => Verifies']_vars
  BY <1>1
<1> QED
  BY <1>2, Invariance, PTL DEF Spec, PointerMovesLast

\* Only a deletion that failed to unlink the version file leaves it naming a
\* manifest that is not there (generate_manifest, delete_all).
THEOREM PointerStaysValid == Spec => PointerKept
<1>1. ASSUME IInv, Next, ~Dangling, Dangling'
      PROVE  pc = "delete" /\ VersionFile \in failed
  <2>1. CASE WriteManifest
    <3>1. VersionOf[source] \in Versions /\ [lines |-> Checksums, ragged |-> FALSE] # Absent
      <4>1. source \in Sources /\ Checksums \in LineSets
        BY <2>1, <1>1, ChecksumsWhole, ContentType DEF WriteManifest, IInv, TypeOK, WholeInv
      <4>2. [lines |-> Checksums, ragged |-> FALSE] \in Manifests
        BY <4>1 DEF Manifests
      <4> QED
        BY <4>1, <4>2, SourcesAssumption
    <3> QED
      BY <2>1, <3>1, <1>1 DEF WriteManifest, Dangling, IInv, TypeOK
  <2>2. ASSUME NEW how, WriteManifestStops(how)
        PROVE  FALSE
    <3>1. source \in Sources /\ Checksums \in LineSets
      BY <2>2, <1>1, ChecksumsWhole, ContentType DEF WriteManifestStops, IInv, TypeOK, WholeInv
    <3>2. CutManifests(Checksums) \subseteq Manifests
      BY <3>1, FrontsType DEF CutManifests, Manifests
    <3> QED
      BY <2>2, <3>1, <3>2, <1>1, SourcesAssumption DEF WriteManifestStops, Dangling, IInv, TypeOK
  <2>3. CASE WriteVersion
    <3>1. manifest[VersionOf[source]] # Absent
      BY <2>3, <1>1, VouchedIsThere DEF WriteVersion
    <3> QED
      BY <2>3, <3>1, <1>1 DEF WriteVersion, Dangling
  <2>4. ASSUME NEW how, WriteVersionStops(how)
        PROVE  FALSE
    <3>1. manifest[VersionOf[source]] # Absent
      BY <2>4, <1>1, VouchedIsThere DEF WriteVersionStops
    <3> QED
      BY <2>4, <3>1, <1>1, SourcesAssumption DEF WriteVersionStops, Dangling
  <2>5. ASSUME NEW w \in Versions, SweepManifest(w)
        PROVE  FALSE
    BY <2>5, <1>1 DEF SweepManifest, Dangling, IInv, VouchInv, TypeOK
  <2>6. ASSUME NEW e \in Entries, Unlink(e)
        PROVE  pc = "delete" /\ VersionFile \in failed
    <3>1. pc = "delete" /\ e \in FirstOf(todo)
      BY <2>6 DEF Unlink
    <3>2. version' \in Versions /\ version' = version
      BY <2>6, <1>1, SourcesAssumption DEF Unlink, Unlinked, dirVars, Dangling
    <3>3. e = Manifest(version)
      BY <2>6, <1>1, <3>2 DEF Unlink, Unlinked, dirVars, Dangling, IInv, TypeOK
    <3>4. VersionFile \notin todo
      BY <3>1, <3>3, VersionFileFirst
    <3> QED
      BY <1>1, <3>1, <3>2, <3>4, SourcesAssumption DEF IInv, DeleteInv
  <2> QED
    BY <1>1, <2>1, <2>2, <2>3, <2>4, <2>5, <2>6
    DEF Next, Build, Delete, dirVars, Dangling, StartBuild, LoadFails, WriteCountry,
        WritesDone, ListOrphans, DeleteRefused, StartDelete, DeleteDone, Killed
<1>2. IInv /\ [Next]_vars =>
        [~Dangling /\ Dangling' => pc = "delete" /\ VersionFile \in failed]_vars
  BY <1>1
<1> QED
  BY <1>2, Invariance, PTL DEF Spec, PointerKept

\* Without -f, a country file is only unlinked while the manifest in force
\* vouches for it (gather_files, delete).
THEOREM DeletesOnlyVouched == Spec => VouchedDelete
<1>1. ASSUME IInv, Next, NEW f \in Files, data[f] # Absent, data'[f] = Absent, mode # "Force"
      PROVE  /\ Pointed
             /\ f \in DOMAIN manifest[version].lines
             /\ data[f] = manifest[version].lines[f]
  <2>1. ASSUME NEW g \in Files, WriteCountry(g)
        PROVE  FALSE
    <3>1. g \in DOMAIN Content[source] /\ source \in Sources
      BY <1>1, <2>1, EntryKinds DEF WriteCountry, IInv, WriteInv, TypeOK
    <3>2. Content[source][g] # Absent /\ Cut # Absent
      BY <3>1, ContentType, SourcesAssumption
    <3> QED
      BY <1>1, <2>1, <3>2 DEF WriteCountry, IInv, TypeOK
  <2>2. ASSUME NEW e \in Entries, Unlink(e)
        PROVE  Country(f) \in todo /\ pc = "delete"
    <3>1. e = Country(f)
      BY <1>1, <2>2 DEF Unlink, Unlinked, dirVars
    <3> QED
      BY <2>2, <3>1 DEF Unlink, FirstOf
  <2>3. ASSUME Killed
        PROVE  FALSE
    BY <1>1, <2>3, SourcesAssumption DEF Killed, IInv, TypeOK
  <2>4. Country(f) \in todo /\ pc = "delete"
    BY <1>1, <2>1, <2>2, <2>3
    DEF Next, Build, Delete, dirVars, StartBuild, LoadFails, WritesDone, WriteManifest,
        WriteManifestStops, WriteVersion, WriteVersionStops, SweepManifest, ListOrphans,
        DeleteRefused, StartDelete, DeleteDone
  <2> QED
    BY <1>1, <2>4 DEF IInv, DeleteInv, TypeOK, Modes
<1>2. IInv /\ [Next]_vars =>
        [\A f \in Files :
           data[f] # Absent /\ data'[f] = Absent =>
             \/ mode = "Force"
             \/ /\ Pointed
                /\ f \in DOMAIN manifest[version].lines
                /\ data[f] = manifest[version].lines[f]]_vars
  BY <1>1
<1> QED
  BY <1>2, Invariance, PTL DEF Spec, VouchedDelete

=============================================================================
