-------------------------- MODULE CsvArchivesProofs --------------------------
(***************************************************************************)
(* Proofs about CsvArchives, for any number of processes, releases and     *)
(* editions: what is in place was published, pruning keeps the newest, and *)
(* the archives implement ReleaseStore.                                    *)
(***************************************************************************)
EXTENDS CsvArchives, FiniteSetTheorems, TLAPS

-----------------------------------------------------------------------------
(***************************************************************************)
(* Data.                                                                   *)
(***************************************************************************)
LEMMA EditionsAreBlobs ==
  /\ \A v \in Versions : Editions[v] \subseteq Blobs /\ Corrupt \notin Editions[v]
  /\ Corrupt \in Blobs
  /\ Absent \notin Blobs /\ Cut \notin Blobs /\ Left \notin Blobs
BY ArchivesAssumption DEF Blobs

LEMMA ResultsType ==
  /\ \A how \in {"none", "pruned", "failed", "killed"} : Result(how) \in Results
  /\ \A v \in Versions, b \in Blobs : Fetched(v, b) \in Results
BY DEF Results

\* More releases in place, no fewer of them.
LEMMA EnoughGrows ==
  ASSUME NEW S, NEW T, S \subseteq T, T \subseteq Versions, Cardinality(S) >= Keep
  PROVE  Cardinality(T) >= Keep
<1>1. IsFiniteSet(T)
  BY ArchivesAssumption, FS_Subset
<1>2. IsFiniteSet(S) /\ Cardinality(S) <= Cardinality(T)
  BY <1>1, FS_Subset
<1>3. Cardinality(S) \in Nat /\ Cardinality(T) \in Nat
  BY <1>1, <1>2, FS_CardinalityType
<1> QED
  BY <1>2, <1>3, ArchivesAssumption

\* What is superseded stays so when nothing is removed.
LEMMA KeptOnAdding ==
  ASSUME NEW v, Kept(v), \A w \in Versions : zip[w] # Absent => zip'[w] # Absent
  PROVE  Kept(v)'
<1>1. Newer(v) \subseteq Newer(v)' /\ Newer(v)' \subseteq Versions
  BY DEF Newer
<1> QED
  BY <1>1, EnoughGrows DEF Kept

\* Removing a superseded release leaves every superseded release so.
LEMMA KeptOnRemoval ==
  ASSUME NEW u \in Versions, NEW v \in Versions, Kept(u), Kept(v),
         \A w \in Versions : w # u /\ zip[w] # Absent => zip'[w] # Absent
  PROVE  Kept(v)'
<1> USE ArchivesAssumption
<1>1. CASE u <= v
  <2>0. \A w \in Versions : w > v => w # u
    BY <1>1
  <2>1. Newer(v) \subseteq Newer(v)' /\ Newer(v)' \subseteq Versions
    BY <2>0 DEF Newer
  <2> QED
    BY <2>1, EnoughGrows DEF Kept
<1>2. CASE u > v
  <2>0. \A w \in Versions : w > u => w > v /\ w # u
    BY <1>2
  <2>1. Newer(u) \subseteq Newer(v)' /\ Newer(v)' \subseteq Versions
    BY <2>0 DEF Newer
  <2> QED
    BY <2>1, EnoughGrows DEF Kept
<1> QED
  BY <1>1, <1>2

\* With Keep newer releases listed, Keep newer archives are in place: a
\* listed release without its archive is superseded itself.
LEMMA SupersededIsKept ==
  ASSUME KeepInv, NEW v \in Superseded
  PROVE  Kept(v)
<1> DEFINE L == {w \in Listed : w > v}
<1>0. v \in Versions /\ L \subseteq Versions /\ Cardinality(L) >= Keep
  BY DEF Superseded, Listed
<1>1. CASE \A w \in L : zip[w] # Absent
  <2>1. L \subseteq Newer(v) /\ Newer(v) \subseteq Versions
    BY <1>1 DEF Listed, Newer
  <2> QED
    BY <1>0, <2>1, EnoughGrows DEF Kept
<1>2. CASE \E w \in L : zip[w] = Absent
  <2>1. PICK w \in L : zip[w] = Absent
    BY <1>2
  <2>2. w \in Versions /\ w > v /\ Kept(w)
    BY <1>0, <2>1 DEF Listed, KeepInv
  <2>3. \A u \in Versions : u > w => u > v
    BY <1>0, <2>2, ArchivesAssumption
  <2>4. Newer(w) \subseteq Newer(v) /\ Newer(v) \subseteq Versions
    BY <2>3 DEF Newer
  <2> QED
    BY <2>2, <2>4, EnoughGrows DEF Kept
<1> QED
  BY <1>1, <1>2

-----------------------------------------------------------------------------
(***************************************************************************)
(* The invariant, action by action.                                        *)
(***************************************************************************)

\* With the archives, the checksum files and the files to prune as they were,
\* and no process newly about to write a checksum file, nothing to show.
LEMMA KeepInvStays ==
  ASSUME KeepInv, UNCHANGED <<zip, sidecar>>,
         \A p \in Procs : todo'[p] \subseteq todo[p],
         \A p \in Procs : pc'[p] = "sidecar" => pc[p] = "sidecar" /\ ver'[p] = ver[p]
  PROVE  KeepInv'
BY DEF KeepInv, Kept, Newer

LEMMA InitInv == Init => IInv
<1> SUFFICES ASSUME Init PROVE IInv
  OBVIOUS
<1> USE EditionsAreBlobs DEF Init
<1>1. TypeOK
  BY ArchivesAssumption DEF TypeOK, Releases, Phases, Results, Result
<1>2. Published /\ OwnPart /\ NoPartLeft /\ WorkInv /\ KeepInv
  BY DEF Published, OwnPart, NoPartLeft, WorkInv, KeepInv
<1> QED
  BY <1>1, <1>2 DEF IInv

LEMMA PublishInv ==
  ASSUME IInv, Publish
  PROVE  IInv'
<1> USE DEF IInv, Publish, files, locals
<1>1. TypeOK'
  BY DEF TypeOK
<1>2. KeepInv'
  BY KeepInvStays, <1>1 DEF TypeOK
<1> QED
  BY <1>1, <1>2 DEF Published, OwnPart, PartOf, PartOwner, NoPartLeft, WorkInv

LEMMA StartRemoteInv ==
  ASSUME IInv, NEW p \in Procs, StartRemote(p)
  PROVE  IInv'
<1> USE DEF IInv, StartRemote, Go, files, locals
<1>1. TypeOK'
  BY ResultsType DEF TypeOK, Phases
<1>2. KeepInv'
  BY KeepInvStays DEF TypeOK
<1>3. OwnPart' /\ NoPartLeft'
  BY DEF TypeOK, OwnPart, PartOf, PartOwner, NoPartLeft
<1>4. WorkInv'
  BY DEF TypeOK, WorkInv
<1> QED
  BY <1>1, <1>2, <1>3, <1>4 DEF Published

LEMMA StartLocalInv ==
  ASSUME IInv, NEW p \in Procs, StartLocal(p)
  PROVE  IInv'
<1> USE DEF IInv, StartLocal, Go, files
<1>0. PICK v \in Versions : ver' = [ver EXCEPT ![p] = v]
  OBVIOUS
<1>1. TypeOK'
  BY <1>0, ResultsType DEF TypeOK, Phases
<1>2. KeepInv'
  BY <1>0, KeepInvStays DEF TypeOK
<1>3. OwnPart' /\ NoPartLeft'
  BY <1>0 DEF TypeOK, OwnPart, PartOf, PartOwner, NoPartLeft
<1>4. WorkInv'
  BY <1>0 DEF TypeOK, WorkInv
<1> QED
  BY <1>1, <1>2, <1>3, <1>4 DEF Published

\* The end of an operation, with the files as they may be then.
LEMMA EndType ==
  ASSUME TypeOK, NEW p \in Procs, NEW r \in Results, End(p, r), release' = release,
         zip' \in [Versions -> Blobs \cup {Absent}],
         sidecar' \in [Versions -> Blobs \cup {Absent, Cut}],
         part' \in [Versions -> [Procs -> Blobs \cup {Absent, Cut, Left}]]
  PROVE  TypeOK'
<1> USE DEF TypeOK, End
<1>1. pc' \in [Procs -> Phases] /\ ver' \in [Procs -> Versions \cup {Absent}]
  BY DEF Phases
<1>2. body' \in [Procs -> Blobs \cup {Absent}] /\ sum' \in [Procs -> Blobs \cup {Absent, Cut}]
  OBVIOUS
<1>3. tries' \in [Procs -> 0 .. MaxRetries] /\ todo' \in [Procs -> SUBSET Names]
  BY ArchivesAssumption
<1> QED
  BY <1>1, <1>2, <1>3

LEMMA EndWork ==
  ASSUME TypeOK, WorkInv, NEW p \in Procs, NEW r, End(p, r)
  PROVE  WorkInv'
BY DEF TypeOK, WorkInv, End

LEMMA EndsInv ==
  ASSUME IInv, NEW p \in Procs, NoLocal(p) \/ PruneDone(p) \/ Extract(p)
  PROVE  IInv'
<1> USE DEF IInv, files
<1>0. PICK r \in Results : End(p, r) /\ UNCHANGED <<release, files>>
  <2>1. CASE NoLocal(p)
    BY <2>1, ResultsType DEF NoLocal
  <2>2. CASE PruneDone(p)
    BY <2>2, ResultsType DEF PruneDone
  <2>3. CASE Extract(p)
    <3>1. ver[p] \in Versions /\ zip[ver[p]] \in Blobs
      BY <2>3 DEF Extract, TypeOK, WorkInv
    <3> QED
      BY <2>3, <3>1, ResultsType DEF Extract
  <2> QED
    BY <2>1, <2>2, <2>3
<1>1. TypeOK'
  BY <1>0, EndType DEF TypeOK
<1>2. KeepInv'
  BY <1>0, KeepInvStays DEF TypeOK, End
<1>3. OwnPart'
  BY <1>0 DEF TypeOK, OwnPart, PartOf, PartOwner, End
<1>4. NoPartLeft'
  <2>1. pc[p] \notin {"copy", "asksum", "rename"}
    BY DEF NoLocal, PruneDone, Extract
  <2> QED
    BY <1>0, <2>1 DEF TypeOK, NoPartLeft, End
<1> QED
  BY <1>0, <1>1, <1>2, <1>3, <1>4, EndWork DEF Published

\* Steps that leave every file alone.
LEMMA QuietInv ==
  ASSUME IInv, NEW p \in Procs,
         \/ Retry(p) \/ AnswerArchive(p) \/ ReadSidecar(p) \/ HashCached(p) \/ AnswerSum(p)
  PROVE  IInv'
<1> USE DEF IInv, Go, files
<1>1. TypeOK'
  <2> USE DEF TypeOK, Phases
  <2>1. CASE Retry(p)
    BY <2>1, ArchivesAssumption DEF Retry
  <2>2. CASE AnswerArchive(p)
    BY <2>2, EditionsAreBlobs, ArchivesAssumption DEF AnswerArchive, Releases
  <2>3. CASE ReadSidecar(p)
    BY <2>3 DEF ReadSidecar, WorkInv
  <2>4. CASE HashCached(p)
    BY <2>4 DEF HashCached
  <2>5. CASE AnswerSum(p)
    BY <2>5, ArchivesAssumption DEF AnswerSum
  <2> QED
    BY <2>1, <2>2, <2>3, <2>4, <2>5
<1> USE DEF Retry, AnswerArchive, ReadSidecar, HashCached, AnswerSum
<1>2. KeepInv'
  BY KeepInvStays DEF TypeOK
<1>3. WorkInv'
  BY EditionsAreBlobs DEF TypeOK, WorkInv, Releases, OwnPart
<1> QED
  BY <1>1, <1>2, <1>3 DEF TypeOK, Published, OwnPart, PartOf, PartOwner, NoPartLeft, WorkInv

LEMMA CreatePartInv ==
  ASSUME IInv, NEW p \in Procs, CreatePart(p)
  PROVE  IInv'
<1> USE DEF IInv, CreatePart, Go, SetPart, PartOwner, locals
<1>0. ver[p] \in Versions
  BY DEF WorkInv
<1>1. TypeOK'
  BY <1>0 DEF TypeOK, Phases
<1>2. KeepInv'
  BY KeepInvStays DEF TypeOK
<1>3. OwnPart' /\ NoPartLeft'
  BY <1>0 DEF TypeOK, OwnPart, PartOf, NoPartLeft
<1> QED
  BY <1>1, <1>2, <1>3 DEF TypeOK, Published, WorkInv

LEMMA CopyBodyInv ==
  ASSUME IInv, NEW p \in Procs, CopyBody(p)
  PROVE  IInv'
<1> USE DEF IInv, CopyBody, Go, SetPart, PartOwner
<1>0. ver[p] \in Versions /\ body[p] \in Editions[ver[p]]
  BY DEF WorkInv
<1>1. TypeOK'
  BY <1>0, EditionsAreBlobs DEF TypeOK, Phases
<1>2. KeepInv'
  BY KeepInvStays DEF TypeOK
<1>3. OwnPart' /\ NoPartLeft'
  BY <1>0 DEF TypeOK, OwnPart, PartOf, NoPartLeft
<1>4. WorkInv'
  BY <1>0 DEF TypeOK, WorkInv
<1> QED
  BY <1>1, <1>2, <1>3, <1>4 DEF TypeOK, Published

LEMMA RenamePartInv ==
  ASSUME IInv, NEW p \in Procs, RenamePart(p)
  PROVE  IInv'
<1> USE DEF IInv, RenamePart, Go, SetPart, PartOwner, locals
<1>0. ver[p] \in Versions /\ sum[p] \in Editions[ver[p]] /\ PartOf(p) = sum[p]
  BY DEF WorkInv, OwnPart
<1>1. PartOf(p) \in Blobs
  BY <1>0, EditionsAreBlobs
<1>2. TypeOK'
  BY <1>0, <1>1 DEF TypeOK, Phases
<1>3. Published'
  BY <1>0 DEF TypeOK, Published
<1>4. OwnPart' /\ NoPartLeft'
  BY <1>0 DEF TypeOK, OwnPart, PartOf, NoPartLeft
<1>5. WorkInv'
  BY DEF TypeOK, WorkInv
<1>6. KeepInv'
  <2>1. /\ zip'[ver[p]] # Absent
        /\ \A w \in Versions : zip[w] # Absent => zip'[w] # Absent
    BY <1>0, <1>1, EditionsAreBlobs DEF TypeOK
  <2>2. \A v : Kept(v) => Kept(v)'
    BY <2>1, KeptOnAdding
  <2> QED
    BY <2>1, <2>2 DEF TypeOK, KeepInv
<1> QED
  BY <1>2, <1>3, <1>4, <1>5, <1>6

\* With the archives and the list of files to prune as they were, a checksum
\* file may only change where what it belongs to is in place or superseded.
LEMMA KeepInvBeside ==
  ASSUME KeepInv, UNCHANGED <<zip>>, NEW u \in Versions, zip[u] # Absent \/ Kept(u),
         \A v \in Versions : v # u => sidecar'[v] = sidecar[v],
         \A p \in Procs : todo'[p] \subseteq todo[p],
         \A p \in Procs : pc'[p] = "sidecar" => pc[p] = "sidecar" /\ ver'[p] = ver[p]
  PROVE  KeepInv'
<1>1. \A v : Kept(v)' <=> Kept(v)
  BY DEF Kept, Newer
<1>2. \A p \in Procs : \A n \in todo'[p] : Kept(n[2])'
  BY <1>1 DEF KeepInv
<1>3. \A v \in Versions : zip'[v] = Absent /\ sidecar'[v] # Absent => Kept(v)'
  BY <1>1 DEF KeepInv
<1>4. ASSUME NEW p \in Procs, pc'[p] = "sidecar", zip'[ver'[p]] = Absent
      PROVE  Kept(ver[p])'
  BY <1>1, <1>4 DEF KeepInv, Kept, Newer
<1> QED
  BY <1>2, <1>3, <1>4 DEF KeepInv, Kept, Newer

LEMMA WriteSidecarInv ==
  ASSUME IInv, NEW p \in Procs, WriteSidecar(p)
  PROVE  IInv'
<1> USE DEF IInv, WriteSidecar, Go
<1>0. ver[p] \in Versions /\ sum[p] \in Editions[ver[p]] /\ pc[p] = "sidecar"
  BY DEF WorkInv
<1>1. TypeOK'
  BY <1>0, EditionsAreBlobs DEF TypeOK, Phases
<1>2. KeepInv'
  <2>1. zip[ver[p]] # Absent \/ Kept(ver[p])
    BY <1>0 DEF KeepInv
  <2> QED
    BY <1>0, <2>1, KeepInvBeside DEF TypeOK
<1>3. OwnPart'
  BY <1>0 DEF TypeOK, OwnPart, PartOf, PartOwner
<1>4. NoPartLeft'
  BY <1>0 DEF TypeOK, NoPartLeft
<1>5. WorkInv'
  BY <1>0 DEF TypeOK, WorkInv
<1> QED
  BY <1>1, <1>2, <1>3, <1>4, <1>5 DEF Published

LEMMA WriteSidecarStopsInv ==
  ASSUME IInv, NEW p \in Procs, NEW how \in {"failed", "killed"}, WriteSidecarStops(p, how)
  PROVE  IInv'
<1> USE DEF IInv
<1>0. /\ ver[p] \in Versions /\ pc[p] = "sidecar"
      /\ Result(how) \in Results /\ End(p, Result(how))
      /\ UNCHANGED <<release, zip, part>>
  BY ResultsType DEF WorkInv, WriteSidecarStops
<1>1. PICK s \in {sidecar[ver[p]], Cut} : sidecar' = [sidecar EXCEPT ![ver[p]] = s]
  BY DEF WriteSidecarStops
<1>2. sidecar' \in [Versions -> Blobs \cup {Absent, Cut}]
  BY <1>0, <1>1 DEF TypeOK
<1>3. TypeOK'
  BY <1>0, <1>2, EndType DEF TypeOK
<1>4. KeepInv'
  <2>1. zip[ver[p]] # Absent \/ Kept(ver[p])
    BY <1>0 DEF KeepInv
  <2> QED
    BY <1>0, <1>1, <2>1, KeepInvBeside DEF TypeOK, End
<1>5. OwnPart'
  BY <1>0 DEF TypeOK, OwnPart, PartOf, PartOwner, End
<1>6. NoPartLeft'
  BY <1>0 DEF TypeOK, NoPartLeft, End
<1> QED
  BY <1>0, <1>3, <1>4, <1>5, <1>6, EndWork DEF Published

LEMMA StopsInv ==
  ASSUME IInv, NEW p \in Procs, Fails(p) \/ Killed(p)
  PROVE  IInv'
<1> USE DEF IInv, SetPart, PartOwner, Armed
<1>0. PICK r \in Results : End(p, r)
  BY ResultsType DEF Fails, Killed
<1>1. UNCHANGED <<release, zip, sidecar>> /\ pc[p] # "sidecar"
  BY DEF Fails, Killed
<1>2. \/ /\ part' = part
         /\ pc[p] \in {"copy", "asksum", "rename"} => part[ver[p]][p] = Absent
      \/ /\ ver[p] \in Versions
         /\ \E x \in {Absent, Left} : part' = [part EXCEPT ![ver[p]][p] = x]
  <2>1. CASE Fails(p)
    BY <2>1 DEF Fails, WorkInv, PartOf
  <2>2. CASE Killed(p)
    BY <2>2 DEF Killed, WorkInv, PartOf
  <2> QED
    BY <2>1, <2>2
<1>3. part' \in [Versions -> [Procs -> Blobs \cup {Absent, Cut, Left}]]
  <2>1. ASSUME NEW x \in {Absent, Left}, ver[p] \in Versions,
               part' = [part EXCEPT ![ver[p]][p] = x]
        PROVE  part' \in [Versions -> [Procs -> Blobs \cup {Absent, Cut, Left}]]
    BY <2>1 DEF TypeOK
  <2> QED
    BY <1>2, <2>1 DEF TypeOK
<1>4. TypeOK'
  BY <1>0, <1>1, <1>3, EndType DEF TypeOK
<1>5. KeepInv'
  BY <1>0, <1>1, KeepInvStays DEF TypeOK, End
<1>6. OwnPart'
  <2> SUFFICES ASSUME NEW q \in Procs, pc'[q] \in {"asksum", "rename"}
               PROVE  PartOf(q)' = sum'[q]
    BY DEF OwnPart
  <2>1. /\ q # p /\ pc[q] \in {"asksum", "rename"}
        /\ ver'[q] = ver[q] /\ sum'[q] = sum[q] /\ ver[q] \in Versions
    BY <1>0 DEF End, TypeOK, WorkInv
  <2>2. part'[ver[q]][q] = part[ver[q]][q]
    <3>1. ASSUME NEW x \in {Absent, Left}, ver[p] \in Versions,
                 part' = [part EXCEPT ![ver[p]][p] = x]
          PROVE  part'[ver[q]][q] = part[ver[q]][q]
      BY <2>1, <3>1 DEF TypeOK
    <3> QED
      BY <1>2, <3>1
  <2> QED
    BY <2>1, <2>2 DEF OwnPart, PartOf
<1>7. NoPartLeft'
  <2> SUFFICES ASSUME NEW v \in Versions, NEW q \in Procs, part'[v][q] \notin {Absent, Left}
               PROVE  ver'[q] = v /\ pc'[q] \in {"copy", "asksum", "rename"}
    BY DEF NoPartLeft
  <2>0. part[v][q] = part'[v][q]
    BY <1>2 DEF TypeOK
  <2>1. ver[q] = v /\ pc[q] \in {"copy", "asksum", "rename"}
    BY <2>0 DEF NoPartLeft
  <2>2. q # p
    BY <1>2, <2>0, <2>1 DEF TypeOK
  <2> QED
    BY <1>0, <2>1, <2>2 DEF End, TypeOK
<1> QED
  BY <1>0, <1>1, <1>4, <1>5, <1>6, <1>7, EndWork DEF Published

LEMMA StartPruneInv ==
  ASSUME IInv, NEW p \in Procs, StartPrune(p)
  PROVE  IInv'
<1> USE DEF IInv, StartPrune, Go, files
<1>1. TypeOK'
  BY DEF TypeOK, Phases, Results, Result
<1>2. KeepInv'
  <2>1. \A v : Kept(v)' <=> Kept(v)
    BY DEF Kept, Newer
  <2>2. \A n \in todo'[p] : Kept(n[2])
    BY SupersededIsKept DEF TypeOK
  <2> QED
    BY <2>1, <2>2 DEF TypeOK, KeepInv
<1> QED
  BY <1>1, <1>2 DEF TypeOK, Published, OwnPart, PartOf, PartOwner, NoPartLeft, WorkInv

LEMMA PruneOneInv ==
  ASSUME IInv, NEW p \in Procs, NEW n \in Names, PruneOne(p, n)
  PROVE  IInv'
<1> USE DEF IInv, PruneOne
<1>0. n[2] \in Versions /\ Kept(n[2]) /\ n \in todo[p]
  BY DEF Names, KeepInv
<1>1. TypeOK'
  BY <1>0 DEF TypeOK
<1>2. KeepInv'
  <2>1. \A w \in Versions : w # n[2] /\ zip[w] # Absent => zip'[w] # Absent
    BY DEF TypeOK
  <2>2. \A v \in Versions : Kept(v) => Kept(v)'
    BY <1>0, <2>1, KeptOnRemoval
  <2>3. \A v \in Versions : zip'[v] = Absent /\ sidecar'[v] # Absent => Kept(v)'
    BY <1>0, <2>2 DEF TypeOK, KeepInv
  <2>4. \A q \in Procs : pc[q] = "sidecar" => zip[ver[q]] # Absent \/ Kept(ver[q])
    BY DEF KeepInv
  <2>5. \A q \in Procs : pc[q] = "sidecar" => ver[q] \in Versions
    BY DEF WorkInv
  <2>6. \A q \in Procs : \A k \in todo'[q] : k \in todo[q] /\ k[2] \in Versions
    BY DEF TypeOK, Names
  <2>7. \A q \in Procs : \A k \in todo'[q] : Kept(k[2])'
    BY <2>2, <2>6 DEF KeepInv
  <2>8. ASSUME NEW q \in Procs, pc'[q] = "sidecar", zip'[ver'[q]] = Absent
        PROVE  Kept(ver[q])'
    <3>1. pc[q] = "sidecar" /\ ver'[q] = ver[q] /\ ver[q] \in Versions
      BY <2>5, <2>8
    <3>2. Kept(ver[q])
      BY <1>0, <2>4, <2>8, <3>1 DEF TypeOK
    <3> QED
      BY <2>2, <3>1, <3>2
  <2> QED
    BY <2>3, <2>7, <2>8 DEF KeepInv, Kept, Newer
<1>3. Published'
  BY <1>0 DEF TypeOK, Published
<1> QED
  BY <1>1, <1>2, <1>3 DEF TypeOK, OwnPart, PartOf, PartOwner, NoPartLeft, WorkInv

LEMMA StutterInv ==
  ASSUME IInv, UNCHANGED vars
  PROVE  IInv'
BY DEF IInv, vars, TypeOK, Published, OwnPart, PartOf, PartOwner, NoPartLeft, WorkInv, KeepInv,
       Kept, Newer

LEMMA NextInv == IInv /\ [Next]_vars => IInv'
BY PublishInv, StartRemoteInv, StartLocalInv, EndsInv, QuietInv, CreatePartInv, CopyBodyInv, RenamePartInv,
   WriteSidecarInv, WriteSidecarStopsInv, StopsInv, StartPruneInv, PruneOneInv, StutterInv
DEF Next, Start, Step

-----------------------------------------------------------------------------
(***************************************************************************)
(* The theorems.                                                           *)
(***************************************************************************)

\* Every reachable state of the archive directory and of the processes at
\* work on it satisfies IInv.
THEOREM Invariance == Spec => []IInv
BY InitInv, NextInv, PTL DEF Spec

\* The variables keep their types.
THEOREM TypeCorrect == Spec => []TypeOK
<1>1. IInv => TypeOK
  BY DEF IInv
<1> QED
  BY <1>1, Invariance, PTL

\* Whatever processes fail, die or race, an archive in place is an edition of
\* its release that the server published (acquire_remote_archive).
THEOREM OnlyPublished == Spec => []Published
<1>1. IInv => Published
  BY DEF IInv
<1> QED
  BY <1>1, Invariance, PTL

\* No process writes another's .part file (part_path).
THEOREM PartsAreOwn == Spec => []OwnPart
<1>1. IInv => OwnPart
  BY DEF IInv
<1> QED
  BY <1>1, Invariance, PTL

\* An error path leaves no .part file behind (PartialDownload).
THEOREM PartsAreRemoved == Spec => []NoPartLeft
<1>1. IInv => NoPartLeft
  BY DEF IInv
<1> QED
  BY <1>1, Invariance, PTL

\* A step removes an archive only when Keep newer ones are in place: only
\* PruneOne removes one, and what it has on its list is superseded.
LEMMA KeepsNewest ==
  ASSUME IInv, [Next]_vars, NEW v \in Versions, zip[v] # Absent, zip'[v] = Absent
  PROVE  Cardinality(Newer(v)) >= Keep
<1>1. ASSUME NEW p \in Procs, RenamePart(p)
      PROVE  FALSE
  <2>1. ver[p] \in Versions /\ PartOf(p) \in Blobs
    BY <1>1, EditionsAreBlobs DEF IInv, WorkInv, OwnPart, RenamePart, Go
  <2>2. zip'[v] = zip[v] \/ zip'[v] = PartOf(p)
    BY <1>1, <2>1 DEF IInv, TypeOK, RenamePart
  <2> QED
    BY <2>1, <2>2, EditionsAreBlobs
<1>2. ASSUME NEW p \in Procs, NEW n \in Names, PruneOne(p, n)
      PROVE  Kept(v)
  <2>1. n[2] = v
    BY <1>2 DEF IInv, TypeOK, PruneOne
  <2>2. Kept(n[2])
    BY <1>2 DEF IInv, KeepInv, PruneOne
  <2> QED
    BY <2>1, <2>2
<1>3. zip' # zip
  OBVIOUS
<1> QED
  BY <1>1, <1>2, <1>3 DEF Next, Start, Step, vars, files, Publish, StartRemote, StartLocal,
     NoLocal, StartPrune, Retry, AnswerArchive, ReadSidecar, HashCached, CreatePart, CopyBody,
     AnswerSum, WriteSidecar, WriteSidecarStops, Extract, Fails, PruneDone, Killed, Kept

\* However many prunes, downloads and kills there are, a release goes only
\* when Keep newer ones are in place (prune_csv_archives).
THEOREM NewestAreKept == Spec => NewestKept
<1>1. IInv /\ [Next]_vars =>
        [\A v \in Versions : zip[v] # Absent /\ zip'[v] = Absent =>
           Cardinality(Newer(v)) >= Keep]_vars
  BY KeepsNewest
<1> QED
  BY <1>1, Invariance, PTL DEF Spec, NewestKept

-----------------------------------------------------------------------------
(***************************************************************************)
(* One process at a time.                                                  *)
(***************************************************************************)
\* No two processes are at work.
OneProcess == \A p, q \in Procs : p = q

\* What the digest a process holds is of: of the checksum file it read, and of
\* the archive it has put in place.  Of nothing between operations.
VouchInv ==
  \A p \in Procs :
    /\ pc[p] = "idle" => sum[p] = Absent
    /\ pc[p] = "hash" => sum[p] = sidecar[ver[p]]
    /\ pc[p] = "sidecar" => sum[p] = zip[ver[p]]

\* A process alone keeps it.
LEMMA VouchKept ==
  ASSUME OneProcess, IInv, VouchInv, [Next]_vars
  PROVE  VouchInv'
<1>1. TypeOK /\ OwnPart
  BY DEF IInv
<1>2. CASE Publish
  BY <1>2 DEF Publish, VouchInv, files, locals
<1>3. CASE UNCHANGED vars
  BY <1>3 DEF vars, VouchInv
<1>4. ASSUME NEW p \in Procs, Start(p) \/ Step(p) \/ Killed(p) \/ WriteSidecarStops(p, "killed")
      PROVE  VouchInv'
  <2> SUFFICES /\ pc'[p] = "idle" => sum'[p] = Absent
               /\ pc'[p] = "hash" => sum'[p] = sidecar'[ver'[p]]
               /\ pc'[p] = "sidecar" => sum'[p] = zip'[ver'[p]]
    BY DEF VouchInv, OneProcess
  <2>0. /\ pc \in [Procs -> Phases] /\ sum \in [Procs -> Blobs \cup {Absent, Cut}]
        /\ ver \in [Procs -> Versions \cup {Absent}] /\ zip \in [Versions -> Blobs \cup {Absent}]
        /\ sidecar \in [Versions -> Blobs \cup {Absent, Cut}]
    BY <1>1 DEF TypeOK
  <2>1. CASE pc' = [pc EXCEPT ![p] = "idle"] /\ sum' = [sum EXCEPT ![p] = Absent]
    BY <2>0, <2>1
  <2>2. CASE StartRemote(p) \/ StartLocal(p) \/ StartPrune(p)
    BY <2>0, <2>2 DEF StartRemote, StartLocal, StartPrune, Go
  <2>3. CASE Retry(p)
    BY <2>0, <2>3 DEF Retry
  <2>4. CASE AnswerArchive(p) \/ CreatePart(p) \/ CopyBody(p) \/ AnswerSum(p)
    BY <2>0, <2>4 DEF AnswerArchive, CreatePart, CopyBody, AnswerSum, Go
  <2>5. CASE ReadSidecar(p)
    BY <2>0, <2>5 DEF ReadSidecar, files
  <2>6. CASE HashCached(p) \/ WriteSidecar(p)
    BY <2>0, <2>6 DEF HashCached, WriteSidecar, Go
  <2>7. CASE RenamePart(p)
    <3>1. ver[p] \in Versions
      BY <1>1, <2>0, <2>7 DEF IInv, WorkInv, RenamePart, Go
    <3>2. PartOf(p) = sum[p]
      BY <1>1, <2>7 DEF OwnPart, RenamePart, Go
    <3>3. zip'[ver[p]] = PartOf(p) /\ UNCHANGED <<ver, sum>> /\ pc'[p] = "sidecar"
      BY <2>0, <2>7, <3>1 DEF RenamePart, Go, locals
    <3> QED
      BY <3>2, <3>3
  <2>8. ASSUME NEW n \in Names, PruneOne(p, n)
        PROVE  pc'[p] = "prune"
    BY <2>8 DEF PruneOne
  <2> QED
    BY <1>4, <2>1, <2>2, <2>3, <2>4, <2>5, <2>6, <2>7, <2>8
      DEF Start, Step, NoLocal, PruneDone, WriteSidecarStops, Extract, Fails, Killed, End
<1> QED
  BY <1>2, <1>3, <1>4 DEF Next

\* A fetch over the network by a process alone ends with an archive that its
\* checksum file vouches for (acquire_remote_archive).
THEOREM AloneLeavesVouched == ASSUME OneProcess PROVE Spec => LeavesVouched
<1>1. Init => VouchInv
  BY DEF Init, VouchInv
<1>2. IInv /\ VouchInv /\ [Next]_vars => VouchInv'
  BY VouchKept
<1>3. ASSUME IInv, VouchInv, [Next]_vars, NEW p \in Procs,
             sum[p] # Absent, pc[p] # "extract", pc'[p] = "extract"
      PROVE  zip'[ver[p]] = sidecar'[ver[p]]
  <2>0. /\ pc \in [Procs -> Phases] /\ ver \in [Procs -> Versions \cup {Absent}]
        /\ sidecar \in [Versions -> Blobs \cup {Absent, Cut}]
    BY <1>3 DEF IInv, TypeOK
  <2>1. ~Publish /\ ~UNCHANGED vars
    BY <1>3 DEF Publish, vars
  <2>2. PICK q \in Procs : Start(q) \/ Step(q) \/ Killed(q) \/ WriteSidecarStops(q, "killed")
    BY <1>3, <2>1 DEF Next
  <2>3. q = p
    BY DEF OneProcess
  <2>4. pc[p] # "idle"
    BY <1>3 DEF VouchInv
  <2>5. ~Start(p)
    BY <2>0, <1>3, <2>4 DEF Start, StartRemote, StartLocal, NoLocal, StartPrune, Go, End
  <2>6. CASE HashCached(p)
    <3>1. zip[ver[p]] = sum[p] /\ UNCHANGED <<zip, sidecar>>
      BY <1>3, <2>0, <2>6 DEF HashCached, files
    <3>2. sum[p] = sidecar[ver[p]]
      BY <1>3, <2>6 DEF HashCached, VouchInv
    <3> QED
      BY <3>1, <3>2
  <2>7. CASE WriteSidecar(p)
    <3>1. ver[p] \in Versions /\ zip[ver[p]] = sum[p]
      BY <1>3, <2>7 DEF WriteSidecar, Go, VouchInv, IInv, WorkInv
    <3>2. sidecar'[ver[p]] = sum[p] /\ zip' = zip
      BY <2>0, <2>7, <3>1 DEF WriteSidecar
    <3> QED
      BY <3>1, <3>2
  <2>8. HashCached(p) \/ WriteSidecar(p)
    <3>1. ~Killed(p) /\ \A how : ~WriteSidecarStops(p, how)
      BY <1>3, <2>0 DEF Killed, WriteSidecarStops, End
    <3>2. ~Retry(p) /\ ~AnswerArchive(p) /\ ~ReadSidecar(p) /\ ~CreatePart(p) /\ ~CopyBody(p)
      BY <1>3, <2>0 DEF Retry, AnswerArchive, ReadSidecar, CreatePart, CopyBody, Go
    <3>3. ~AnswerSum(p) /\ ~RenamePart(p) /\ ~Extract(p) /\ ~Fails(p) /\ ~PruneDone(p)
      BY <1>3, <2>0 DEF AnswerSum, RenamePart, Extract, Fails, PruneDone, Go, End
    <3>4. \A n \in Names : ~PruneOne(p, n)
      BY <1>3 DEF PruneOne
    <3> QED
      BY <2>2, <2>3, <2>5, <3>1, <3>2, <3>3, <3>4 DEF Step
  <2> QED
    BY <2>6, <2>7, <2>8
<1>4. IInv /\ VouchInv /\ [Next]_vars =>
        [\A p \in Procs : sum[p] # Absent /\ pc[p] # "extract" /\ pc'[p] = "extract" =>
           zip'[ver[p]] = sidecar'[ver[p]]]_vars
  BY <1>3
<1> QED
  BY <1>1, <1>2, <1>4, Invariance, PTL DEF Spec, LeavesVouched

-----------------------------------------------------------------------------
(***************************************************************************)
(* The archives implement ReleaseStore: RenamePart is a Put, PruneOne a    *)
(* Drop, Extract a Return; what ends or begins an operation is an Other.   *)
(***************************************************************************)
LEMMA StoreInit == Init => Store!Init
BY DEF Init, Store!Init, Result

LEMMA QuietStep ==
  ASSUME UNCHANGED <<zip, result>>
  PROVE  UNCHANGED Store!vars
BY DEF Store!vars

LEMMA OtherStep ==
  ASSUME NEW p \in Procs, NEW how \in {"none", "failed", "pruned", "killed"}, zip' = zip,
         result' = [result EXCEPT ![p] = Result(how)]
  PROVE  Store!Next
<1>1. Store!Other(p)
  BY DEF Store!Other, Result
<1> QED
  BY <1>1 DEF Store!Next

LEMMA PutStep ==
  ASSUME IInv, NEW p \in Procs, RenamePart(p)
  PROVE  Store!Next
<1>1. ver[p] \in Versions /\ PartOf(p) \in Editions[ver[p]]
  BY DEF IInv, WorkInv, OwnPart, RenamePart, Go
<1>2. Store!Put(ver[p])
  BY <1>1 DEF Store!Put, RenamePart
<1> QED
  BY <1>1, <1>2 DEF Store!Next

LEMMA DropStep ==
  ASSUME IInv, NEW p \in Procs, NEW n \in Names, PruneOne(p, n)
  PROVE  [Store!Next]_Store!vars
<1>1. CASE n[1] = "zip"
  <2>1. n[2] \in Versions /\ Kept(n[2])
    BY DEF IInv, KeepInv, PruneOne, Names
  <2>2. Store!Newer(n[2]) = Newer(n[2])
    BY DEF Store!Newer, Newer
  <2>3. zip' = [zip EXCEPT ![n[2]] = Absent] /\ result' = result
    BY <1>1 DEF PruneOne
  <2>4. Store!Drop(n[2])
    <3>1. Store!Cardinality(Newer(n[2])) = Cardinality(Newer(n[2]))
      BY DEF Store!Cardinality, Cardinality
    <3> QED
      BY <2>1, <2>2, <2>3, <3>1 DEF Store!Drop, Kept
  <2> QED
    BY <2>1, <2>4 DEF Store!Next
<1>2. CASE n[1] # "zip"
  BY <1>2, QuietStep DEF PruneOne
<1> QED
  BY <1>1, <1>2

LEMMA ReturnStep ==
  ASSUME IInv, NEW p \in Procs, Extract(p)
  PROVE  Store!Next
<1>1. ver[p] \in Versions
  BY DEF IInv, WorkInv, Extract
<1>2. Store!Return(p, ver[p])
  BY <1>1 DEF Store!Return, Extract, End, Fetched, files
<1> QED
  BY <1>1, <1>2 DEF Store!Next

LEMMA StoreStep == IInv /\ [Next]_vars => [Store!Next]_Store!vars
<1> SUFFICES ASSUME IInv, [Next]_vars PROVE [Store!Next]_Store!vars
  OBVIOUS
<1>1. CASE UNCHANGED vars \/ Publish
  BY <1>1, QuietStep DEF vars, Publish, files
<1>2. ASSUME NEW p \in Procs, StartRemote(p) \/ StartLocal(p) \/ NoLocal(p) \/ StartPrune(p)
      PROVE  Store!Next
  BY <1>2, OtherStep DEF StartRemote, StartLocal, NoLocal, StartPrune, End, files
<1>3. ASSUME NEW p \in Procs,
             \/ Retry(p) \/ AnswerArchive(p) \/ ReadSidecar(p) \/ HashCached(p)
             \/ CreatePart(p) \/ CopyBody(p) \/ AnswerSum(p) \/ WriteSidecar(p)
      PROVE  UNCHANGED Store!vars
  BY <1>3, QuietStep DEF Retry, AnswerArchive, ReadSidecar, HashCached, CreatePart, CopyBody,
     AnswerSum, WriteSidecar, files, locals
<1>4. ASSUME NEW p \in Procs,
             \/ WriteSidecarStops(p, "failed") \/ WriteSidecarStops(p, "killed")
             \/ Fails(p) \/ Killed(p) \/ PruneDone(p)
      PROVE  Store!Next
  BY <1>4, OtherStep DEF WriteSidecarStops, Fails, Killed, PruneDone, End, files
<1> QED
  BY <1>1, <1>2, <1>3, <1>4, PutStep, DropStep, ReturnStep DEF Next, Start, Step

\* To whoever uses it, the archive directory is a store of releases, with any
\* number of processes at work in it.
THEOREM ImplementsStore == Spec => StoreSpec
BY StoreInit, StoreStep, Invariance, PTL DEF Spec, StoreSpec, Store!Spec
=============================================================================
