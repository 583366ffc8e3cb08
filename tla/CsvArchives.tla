----------------------------- MODULE CsvArchives -----------------------------
(***************************************************************************)
(* The CSV archives: fetch.rs downloads and reuses them, backup.rs prunes  *)
(* them.  Any number of processes work on one archive directory, with no   *)
(* lock; a process may be killed at any point, and the server may publish  *)
(* a new release, an older one again, or another edition of the same       *)
(* release between any two requests.                                       *)
(*                                                                         *)
(* A blob is the content of an archive and stands for its SHA-256 digest   *)
(* too.  A process is named by its PID: a later process may have the same. *)
(***************************************************************************)
EXTENDS Integers, FiniteSets

CONSTANTS
  Procs,       \* PIDs
  Versions,    \* release dates
  Editions,    \* for each release, the archives the server may publish for it
  Keep,        \* paths.archive_prune
  MaxRetries,  \* MAX_RETRIES
  Absent,      \* no such file
  Cut,         \* a file whose writing has not finished
  Left,        \* a .part file nobody is writing any more
  Corrupt      \* a download that is no edition of any release

Blobs == (UNION {Editions[v] : v \in Versions}) \cup {Corrupt}

ASSUME ArchivesAssumption ==
  /\ Versions \subseteq Nat
  /\ IsFiniteSet(Versions)
  /\ Keep \in Nat \ {0}
  /\ MaxRetries \in Nat
  /\ \A v \in Versions : Corrupt \notin Editions[v]
  /\ {Absent, Cut, Left} \cap Blobs = {}
  /\ Absent # Cut /\ Absent # Left /\ Cut # Left

VARIABLES
  release,  \* the release and edition the server answers with now
  zip,      \* zip[v]: GeoLite2-Country-CSV_<v>.zip
  sidecar,  \* sidecar[v]: the digest in GeoLite2-Country-CSV_<v>.zip.sha256
  part,     \* part[v][p]: GeoLite2-Country-CSV_<v>.zip.<pid>.part
  pc,       \* the step a process is at
  ver,      \* the release a process works on
  body,     \* the archive the answer carries
  sum,      \* the digest a process holds
  tries,    \* attempts of the current request that failed
  todo,     \* files a prune has still to remove
  result    \* what the last operation of a process ended with

files == <<zip, sidecar, part>>
locals == <<ver, body, sum, tries, todo>>
vars == <<release, zip, sidecar, part, pc, ver, body, sum, tries, todo, result>>

Releases == {r \in [ver : Versions, blob : Blobs] : r.blob \in Editions[r.ver]}
Names    == {"zip", "sha256"} \X Versions

Phases   == {"idle", "ask", "check", "hash", "create", "copy", "asksum", "rename",
             "sidecar", "extract", "prune"}

\* How an operation ended, and the release and edition it handed on.
Result(how) == <<how, Absent, Absent>>
Fetched(v, b) == <<"fetched", v, b>>

Results ==
  {Result(how) : how \in {"none", "pruned", "failed", "killed"}}
    \cup {Fetched(v, b) : v \in Versions, b \in Blobs}

TypeOK ==
  /\ release \in Releases
  /\ zip \in [Versions -> Blobs \cup {Absent}]
  /\ sidecar \in [Versions -> Blobs \cup {Absent, Cut}]
  /\ part \in [Versions -> [Procs -> Blobs \cup {Absent, Cut, Left}]]
  /\ pc \in [Procs -> Phases]
  /\ ver \in [Procs -> Versions \cup {Absent}]
  /\ body \in [Procs -> Blobs \cup {Absent}]
  /\ sum \in [Procs -> Blobs \cup {Absent, Cut}]
  /\ tries \in [Procs -> 0 .. MaxRetries]
  /\ todo \in [Procs -> SUBSET Names]
  /\ result \in [Procs -> Results]

Init ==
  /\ release \in Releases
  /\ zip = [v \in Versions |-> Absent]
  /\ sidecar = [v \in Versions |-> Absent]
  /\ part = [v \in Versions |-> [p \in Procs |-> Absent]]
  /\ pc = [p \in Procs |-> "idle"]
  /\ ver = [p \in Procs |-> Absent]
  /\ body = [p \in Procs |-> Absent]
  /\ sum = [p \in Procs |-> Absent]
  /\ tries = [p \in Procs |-> 0]
  /\ todo = [p \in Procs |-> {}]
  /\ result = [p \in Procs |-> Result("none")]

Go(p, from, to) == pc[p] = from /\ pc' = [pc EXCEPT ![p] = to]

\* The operation of p is over, and its locals are gone.
End(p, r) ==
  /\ pc' = [pc EXCEPT ![p] = "idle"]
  /\ result' = [result EXCEPT ![p] = r]
  /\ ver' = [ver EXCEPT ![p] = Absent]
  /\ body' = [body EXCEPT ![p] = Absent]
  /\ sum' = [sum EXCEPT ![p] = Absent]
  /\ tries' = [tries EXCEPT ![p] = 0]
  /\ todo' = [todo EXCEPT ![p] = {}]

\* Faulty: the name of the .part file leaves out the PID.
PartOwnerShared(p) == CHOOSE q \in Procs : TRUE

\* Whose .part file a process writes: part_path puts the PID in the name.
PartOwner(p) == p

PartOf(p) == part[ver[p]][PartOwner(p)]

SetPart(p, to) == part' = [part EXCEPT ![ver[p]][PartOwner(p)] = to]

(***************************************************************************)
(* The server.                                                             *)
(***************************************************************************)
Publish ==
  /\ release' \in Releases
  /\ UNCHANGED <<files, pc, locals, result>>

(***************************************************************************)
(* Remote fetch: the request for the archive, and the cache.               *)
(***************************************************************************)
StartRemote(p) ==
  /\ Go(p, "idle", "ask")
  /\ result' = [result EXCEPT ![p] = Result("none")]
  /\ UNCHANGED <<release, files, locals>>

\* Faulty: the count of attempts starts over.
RetryForever(p) ==
  /\ pc[p] \in {"ask", "asksum"}
  /\ tries' = [tries EXCEPT ![p] = (@ + 1) % (MaxRetries + 1)]
  /\ UNCHANGED <<release, files, pc, ver, body, sum, todo, result>>

\* send_with_retry after a timeout, a failed connection or a 5xx answer.
Retry(p) ==
  /\ pc[p] \in {"ask", "asksum"}
  /\ tries[p] < MaxRetries
  /\ tries' = [tries EXCEPT ![p] = @ + 1]
  /\ UNCHANGED <<release, files, pc, ver, body, sum, todo, result>>

\* The answer names the release and carries the archive, not yet read.
AnswerArchive(p) ==
  /\ Go(p, "ask", "check")
  /\ ver' = [ver EXCEPT ![p] = release.ver]
  /\ body' = [body EXCEPT ![p] = release.blob]
  /\ tries' = [tries EXCEPT ![p] = 0]
  /\ UNCHANGED <<release, files, sum, todo, result>>

\* With both files there, the digest is read first.
ReadSidecar(p) ==
  /\ pc[p] = "check"
  /\ IF zip[ver[p]] # Absent /\ sidecar[ver[p]] \notin {Absent, Cut}
       THEN /\ pc' = [pc EXCEPT ![p] = "hash"]
            /\ sum' = [sum EXCEPT ![p] = sidecar[ver[p]]]
       ELSE pc' = [pc EXCEPT ![p] = "create"] /\ UNCHANGED sum
  /\ UNCHANGED <<release, files, ver, body, tries, todo, result>>

\* Then the archive is hashed; an error is a warning and means a download.
HashCached(p) ==
  /\ pc[p] = "hash"
  /\ \/ zip[ver[p]] = sum[p] /\ pc' = [pc EXCEPT ![p] = "extract"]
     \/ pc' = [pc EXCEPT ![p] = "create"]
  /\ sum' = [sum EXCEPT ![p] = Absent]
  /\ UNCHANGED <<release, files, ver, body, tries, todo, result>>

(***************************************************************************)
(* The download.                                                           *)
(***************************************************************************)
CreatePart(p) ==
  /\ Go(p, "create", "copy")
  /\ SetPart(p, Cut)
  /\ UNCHANGED <<release, zip, sidecar, locals, result>>

\* The archive is streamed to the .part file and hashed on the way.
CopyBody(p) ==
  /\ Go(p, "copy", "asksum")
  /\ \E b \in {body[p], Corrupt} :
       /\ SetPart(p, b)
       /\ sum' = [sum EXCEPT ![p] = b]
  /\ UNCHANGED <<release, zip, sidecar, ver, body, tries, todo, result>>

\* Faulty: the download is taken whatever its digest.
AnswerSumUnchecked(p) ==
  /\ Go(p, "asksum", "rename")
  /\ tries' = [tries EXCEPT ![p] = 0]
  /\ UNCHANGED <<release, files, ver, body, sum, todo, result>>

\* The server's digest is that of the archive it publishes now, whatever
\* release that is; one that differs ends the fetch (Fails).
AnswerSum(p) ==
  /\ Go(p, "asksum", "rename")
  /\ release.blob = sum[p]
  /\ tries' = [tries EXCEPT ![p] = 0]
  /\ UNCHANGED <<release, files, ver, body, sum, todo, result>>

RenamePart(p) ==
  /\ Go(p, "rename", "sidecar")
  /\ PartOf(p) # Absent
  /\ zip' = [zip EXCEPT ![ver[p]] = PartOf(p)]
  /\ SetPart(p, Absent)
  /\ UNCHANGED <<release, sidecar, locals, result>>

\* Faulty: a failed write of the checksum is not an error.
WriteSidecarLoose(p) ==
  /\ Go(p, "sidecar", "extract")
  /\ \E s \in {sum[p], Cut, sidecar[ver[p]]} : sidecar' = [sidecar EXCEPT ![ver[p]] = s]
  /\ sum' = [sum EXCEPT ![p] = Absent]
  /\ UNCHANGED <<release, zip, part, ver, body, tries, todo, result>>

WriteSidecar(p) ==
  /\ Go(p, "sidecar", "extract")
  /\ sidecar' = [sidecar EXCEPT ![ver[p]] = sum[p]]
  /\ sum' = [sum EXCEPT ![p] = Absent]
  /\ UNCHANGED <<release, zip, part, ver, body, tries, todo, result>>

\* The write fails, or the process dies in it: not begun, or cut.
WriteSidecarStops(p, how) ==
  /\ pc[p] = "sidecar"
  /\ \E s \in {sidecar[ver[p]], Cut} : sidecar' = [sidecar EXCEPT ![ver[p]] = s]
  /\ End(p, Result(how))
  /\ UNCHANGED <<release, zip, part>>

\* What is extracted is what is there under the final name by now.
Extract(p) ==
  /\ pc[p] = "extract"
  /\ zip[ver[p]] # Absent
  /\ End(p, Fetched(ver[p], zip[ver[p]]))
  /\ UNCHANGED <<release, files>>

(***************************************************************************)
(* An operation that returns an error.  While the guard PartialDownload is *)
(* armed it removes the .part file; if it cannot, it warns.                *)
(***************************************************************************)
Armed == {"create", "copy", "asksum", "rename"}

Fails(p) ==
  /\ pc[p] \in {"ask", "extract", "prune"} \cup {"create", "copy", "asksum", "rename"}
  /\ IF pc[p] \in Armed /\ PartOf(p) # Absent
       THEN SetPart(p, Absent) \/ SetPart(p, Left)
       ELSE UNCHANGED part
  /\ End(p, Result("failed"))
  /\ UNCHANGED <<release, zip, sidecar>>

\* A kill runs no guard.
Killed(p) ==
  /\ pc[p] \notin {"idle", "sidecar"}
  /\ IF pc[p] \in {"copy", "asksum", "rename"} /\ PartOf(p) # Absent
       THEN SetPart(p, Left)
       ELSE UNCHANGED part
  /\ End(p, Result("killed"))
  /\ UNCHANGED <<release, zip, sidecar>>

(***************************************************************************)
(* Local fetch: the newest archive there is.                               *)
(***************************************************************************)
Newest(v) == zip[v] # Absent /\ \A w \in Versions : w > v => zip[w] = Absent

StartLocal(p) ==
  /\ Go(p, "idle", "extract")
  /\ \E v \in Versions : Newest(v) /\ ver' = [ver EXCEPT ![p] = v]
  /\ result' = [result EXCEPT ![p] = Result("none")]
  /\ UNCHANGED <<release, files, body, sum, tries, todo>>

NoLocal(p) ==
  /\ pc[p] = "idle"
  /\ \A v \in Versions : zip[v] = Absent
  /\ End(p, Result("failed"))
  /\ UNCHANGED <<release, files>>

(***************************************************************************)
(* Pruning: archives and checksum files are grouped by release, and all    *)
(* but the newest Keep releases are removed, oldest first.                 *)
(***************************************************************************)
Listed == {v \in Versions : zip[v] # Absent \/ sidecar[v] # Absent}

\* Faulty: one release too many is taken for superseded.
SupersededByOne ==
  {v \in Listed : Cardinality({w \in Listed : w > v}) >= Keep - 1}

Superseded == {v \in Listed : Cardinality({w \in Listed : w > v}) >= Keep}

Exists(n) == IF n[1] = "zip" THEN zip[n[2]] # Absent ELSE sidecar[n[2]] # Absent

StartPrune(p) ==
  /\ Go(p, "idle", "prune")
  /\ todo' = [todo EXCEPT ![p] = {n \in Names : n[2] \in Superseded /\ Exists(n)}]
  /\ result' = [result EXCEPT ![p] = Result("none")]
  /\ UNCHANGED <<release, files, ver, body, sum, tries>>

\* A file that has gone meanwhile is passed over.
PruneOne(p, n) ==
  /\ pc[p] = "prune"
  /\ n \in todo[p]
  /\ \A m \in todo[p] : n[2] <= m[2]
  /\ todo' = [todo EXCEPT ![p] = @ \ {n}]
  /\ IF n[1] = "zip"
       THEN zip' = [zip EXCEPT ![n[2]] = Absent] /\ UNCHANGED sidecar
       ELSE sidecar' = [sidecar EXCEPT ![n[2]] = Absent] /\ UNCHANGED zip
  /\ UNCHANGED <<release, part, pc, ver, body, sum, tries, result>>

PruneDone(p) ==
  /\ pc[p] = "prune"
  /\ todo[p] = {}
  /\ End(p, Result("pruned"))
  /\ UNCHANGED <<release, files>>

-----------------------------------------------------------------------------
Start(p) == StartRemote(p) \/ StartLocal(p) \/ NoLocal(p) \/ StartPrune(p)

\* A step of an operation that is under way.
Step(p) ==
  \/ Retry(p) \/ AnswerArchive(p) \/ ReadSidecar(p) \/ HashCached(p)
  \/ CreatePart(p) \/ CopyBody(p) \/ AnswerSum(p) \/ RenamePart(p)
  \/ WriteSidecar(p) \/ WriteSidecarStops(p, "failed") \/ Extract(p) \/ Fails(p)
  \/ \E n \in Names : PruneOne(p, n)
  \/ PruneDone(p)

Next ==
  \/ Publish
  \/ \E p \in Procs :
       Start(p) \/ Step(p) \/ Killed(p) \/ WriteSidecarStops(p, "killed")

Spec == Init /\ [][Next]_vars

\* A process that is running goes on running: requests time out, and the
\* waits between attempts are bounded.
Fairness == \A p \in Procs : WF_vars(Step(p))

FairSpec == Spec /\ Fairness

-----------------------------------------------------------------------------
(***************************************************************************)
(* Properties.                                                             *)
(***************************************************************************)

\* An archive in place is one the server published for the release in its
\* name, whole, however many processes download, fail, die or share a release
\* (fetch, acquire_remote_archive).
Published == \A v \in Versions : zip[v] # Absent => zip[v] \in Editions[v]

\* A release's archive is removed only when Keep newer ones are in place at
\* that moment, also with several prunes and downloads at once and with
\* checksum files left behind without their archive (prune_csv_archives).
Newer(v) == {w \in Versions : w > v /\ zip[w] # Absent}

NewestKept ==
  [][\A v \in Versions : zip[v] # Absent /\ zip'[v] = Absent =>
       Cardinality(Newer(v)) >= Keep]_vars

\* A .part file without a process at work on it was left by a kill or a
\* refused removal: no error path of a fetch leaves one (PartialDownload).
NoPartLeft ==
  \A v \in Versions, p \in Procs : part[v][p] \notin {Absent, Left} =>
    ver[p] = v /\ pc[p] \in {"copy", "asksum", "rename"}

\* What a process is about to rename into place is what it hashed: no other
\* process wrote to it (part_path, acquire_remote_archive).
OwnPart ==
  \A p \in Procs : pc[p] \in {"asksum", "rename"} => PartOf(p) = sum[p]

\* A fetch that ends well over the network leaves the archive vouched for by
\* its checksum file, so that the next one reuses it, whatever crash came
\* before.  For one process at a time (fetch, acquire_remote_archive).
LeavesVouched ==
  [][\A p \in Procs : sum[p] # Absent /\ pc[p] # "extract" /\ pc'[p] = "extract" =>
       zip'[ver[p]] = sidecar'[ver[p]]]_vars

\* What the argument rests on.  A process at work on a release knows which,
\* and holds an edition of it.
WorkInv ==
  \A p \in Procs :
    /\ pc[p] \notin {"idle", "ask", "prune"} => ver[p] \in Versions
    /\ pc[p] \in {"check", "hash", "create", "copy"} => body[p] \in Editions[ver[p]]
    /\ pc[p] = "asksum" => sum[p] \in Editions[ver[p]] \cup {Corrupt}
    /\ pc[p] \in {"rename", "sidecar"} => sum[p] \in Editions[ver[p]]

\* What is to be pruned, and a checksum file without its archive, there
\* already or about to be written, belong to releases long superseded.
Kept(v) == Cardinality(Newer(v)) >= Keep

KeepInv ==
  /\ \A p \in Procs : \A n \in todo[p] : Kept(n[2])
  /\ \A v \in Versions : zip[v] = Absent /\ sidecar[v] # Absent => Kept(v)
  /\ \A p \in Procs : pc[p] = "sidecar" /\ zip[ver[p]] = Absent => Kept(ver[p])

IInv == TypeOK /\ Published /\ OwnPart /\ NoPartLeft /\ WorkInv /\ KeepInv

\* Every operation ends: neither retries nor the cache keep it going
\* (send_with_retry).
EveryRunEnds == \A p \in Procs : pc[p] # "idle" ~> pc[p] = "idle"

\* The archives are a store of releases.
Store == INSTANCE ReleaseStore WITH stored <- zip

StoreSpec == Store!Spec
=============================================================================
