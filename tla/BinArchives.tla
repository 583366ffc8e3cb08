----------------------------- MODULE BinArchives -----------------------------
(***************************************************************************)
(* The backups of the output directory: tar archives that processes create *)
(* and prune in one directory.                                             *)
(*                                                                         *)
(* An archive is written to a .part file and renamed into place.  Unlike   *)
(* that of a download, this .part file has no process's number in its      *)
(* name: all processes that back up under one name share it.  A process    *)
(* writes through the file it opened, which another may have renamed into  *)
(* place or removed by then.                                               *)
(***************************************************************************)
EXTENDS Integers, FiniteSets

CONSTANTS
  Procs,
  Names,    \* of archives
  Release,  \* the release of each name that has one, as a number
  Keep,     \* paths.archive_prune
  Absent,
  Cut,      \* not all of it is written
  Torn,     \* two processes wrote to it
  Whole

Dated == DOMAIN Release

Contents == {Absent, Cut, Torn, Whole}

ASSUME BackupsAssumption ==
  /\ IsFiniteSet(Names) /\ Dated \subseteq Names /\ Release \in [Dated -> Nat]
  /\ Keep \in Nat \ {0}
  /\ Cardinality(Contents) = 4

VARIABLES
  archive,  \* archive[n]: the file under its final name
  part,     \* part[n]: the .part file
  pc,
  name,     \* name[p]: what p backs up
  fd,       \* fd[p]: where the file is that p writes to
  todo,     \* todo[p]: the archives p has yet to prune
  alone,    \* processes that no other has joined between create and rename
  shared    \* archives put in place by a process that was not alone

files == <<archive, part>>
vars == <<files, pc, name, fd, todo, alone, shared>>

TypeOK ==
  /\ archive \in [Names -> Contents]
  /\ part \in [Names -> Contents]
  /\ pc \in [Procs -> {"idle", "tar", "write", "rename", "prune"}]
  /\ name \in [Procs -> Names \cup {Absent}]
  /\ fd \in [Procs -> {"none", "part", "archive", "gone"}]
  /\ todo \in [Procs -> SUBSET Dated]
  /\ alone \subseteq Procs
  /\ shared \subseteq Names

Init ==
  /\ archive = [n \in Names |-> Absent] /\ part = [n \in Names |-> Absent]
  /\ pc = [p \in Procs |-> "idle"]
  /\ name = [p \in Procs |-> Absent]
  /\ fd = [p \in Procs |-> "none"]
  /\ todo = [p \in Procs |-> {}]
  /\ alone = {} /\ shared = {}

Works(p, n) == pc[p] \in {"write", "rename"} /\ name[p] = n

End(p) ==
  /\ pc' = [pc EXCEPT ![p] = "idle"]
  /\ name' = [name EXCEPT ![p] = Absent]
  /\ todo' = [todo EXCEPT ![p] = {}]
  /\ alone' = alone \ {p}

\* The files of those who write under n, once n is moved or removed.
Follow(n, fds, from, to) ==
  [p \in Procs |-> IF name[p] = n /\ fds[p] = from THEN to ELSE fds[p]]

Close(p) == [fd EXCEPT ![p] = "none"]

(***************************************************************************)
(* Backing up: backup, create_tarball, write_tarball.                      *)
(***************************************************************************)
\* gather_files found something to back up.
StartBackup(p, n) ==
  /\ pc[p] = "idle"
  /\ pc' = [pc EXCEPT ![p] = "tar"]
  /\ name' = [name EXCEPT ![p] = n]
  /\ UNCHANGED <<files, fd, todo, alone, shared>>

\* File::create truncates a .part file that is there.
CreatePart(p) ==
  LET n == name[p] IN
    /\ pc[p] = "tar"
    /\ part' = [part EXCEPT ![n] = Cut]
    /\ fd' = [fd EXCEPT ![p] = "part"]
    /\ alone' = IF \E q \in Procs : Works(q, n)
                  THEN {q \in alone : ~Works(q, n)}
                  ELSE alone \cup {p}
    /\ pc' = [pc EXCEPT ![p] = "write"]
    /\ UNCHANGED <<archive, name, todo, shared>>

\* Faulty: without the flush, an error of the last write goes unnoticed.
WrittenUnflushed(p) == {Whole, Cut}

\* What a file is in the end that p wrote to.
Written(p) == IF p \in alone THEN {Whole} ELSE {Whole, Torn}

\* What it is when p did not get to the end.
Begun(p, c) == IF p \in alone THEN {c} ELSE {c, Torn}

\* The file p writes to becomes c.
Becomes(p, c) ==
  /\ part' = IF fd[p] = "part" THEN [part EXCEPT ![name[p]] = c] ELSE part
  /\ archive' = IF fd[p] = "archive" THEN [archive EXCEPT ![name[p]] = c] ELSE archive

Content(p) == IF fd[p] = "archive" THEN archive[name[p]] ELSE part[name[p]]

Write(p) ==
  /\ pc[p] = "write"
  /\ \E c \in Written(p) : Becomes(p, c)
  /\ fd' = Close(p)
  /\ pc' = [pc EXCEPT ![p] = "rename"]
  /\ UNCHANGED <<name, todo, alone, shared>>

\* The .part file is removed, whoever's it is; that may fail, too.
CreateFails(p) ==
  /\ pc[p] = "tar"
  /\ \/ UNCHANGED <<part, fd>>
     \/ /\ part' = [part EXCEPT ![name[p]] = Absent]
        /\ fd' = Follow(name[p], fd, "part", "gone")
  /\ End(p)
  /\ UNCHANGED <<archive, shared>>

WriteFails(p) ==
  /\ pc[p] = "write"
  /\ \E c \in Begun(p, Content(p)) :
       \/ Becomes(p, c) /\ fd' = Close(p)
       \/ /\ archive' = IF fd[p] = "archive" THEN [archive EXCEPT ![name[p]] = c] ELSE archive
          /\ part' = [part EXCEPT ![name[p]] = Absent]
          /\ fd' = Follow(name[p], Close(p), "part", "gone")
  /\ End(p)
  /\ UNCHANGED shared

Rename(p) ==
  LET n == name[p] IN
    /\ pc[p] = "rename"
    /\ part[n] # Absent
    /\ archive' = [archive EXCEPT ![n] = part[n]]
    /\ part' = [part EXCEPT ![n] = Absent]
    /\ fd' = Follow(n, Follow(n, fd, "archive", "gone"), "part", "archive")
    /\ shared' = IF p \in alone THEN shared \ {n} ELSE shared \cup {n}
    /\ End(p)

\* The .part file has gone, or the rename fails and leaves it.
RenameFails(p) ==
  /\ pc[p] = "rename"
  /\ End(p)
  /\ UNCHANGED <<files, fd, shared>>

(***************************************************************************)
(* Pruning: prune_archives, prune_bin_archives.                            *)
(***************************************************************************)
\* The releases of the archives in place; a name without one is passed over.
Listed == {Release[n] : n \in {m \in Dated : archive[m] # Absent}}

Newer(v) == {w \in Listed : w > v}

\* Faulty: one release too many is superseded.
SupersededByOne == {n \in Dated : archive[n] # Absent /\ Cardinality(Newer(Release[n])) >= Keep - 1}

\* The archives of all but the newest releases.
Superseded == {n \in Dated : archive[n] # Absent /\ Cardinality(Newer(Release[n])) >= Keep}

StartPrune(p) ==
  /\ pc[p] = "idle"
  /\ todo' = [todo EXCEPT ![p] = Superseded]
  /\ pc' = [pc EXCEPT ![p] = "prune"]
  /\ UNCHANGED <<files, name, fd, alone, shared>>

\* A file that has gone meanwhile is passed over.
PruneOne(p, n) ==
  /\ pc[p] = "prune"
  /\ n \in todo[p]
  /\ \A m \in todo[p] : Release[n] <= Release[m]
  /\ archive' = [archive EXCEPT ![n] = Absent]
  /\ fd' = Follow(n, fd, "archive", "gone")
  /\ todo' = [todo EXCEPT ![p] = @ \ {n}]
  /\ UNCHANGED <<part, pc, name, alone, shared>>

\* All are removed, or one cannot be.
PruneDone(p) ==
  /\ pc[p] = "prune"
  /\ End(p)
  /\ UNCHANGED <<files, fd, shared>>

-----------------------------------------------------------------------------
Killed(p) ==
  /\ pc[p] # "idle"
  /\ IF pc[p] = "write"
       THEN \E c \in Begun(p, Content(p)) : Becomes(p, c)
       ELSE UNCHANGED files
  /\ fd' = Close(p)
  /\ End(p)
  /\ UNCHANGED shared

Next ==
  \E p \in Procs :
    \/ \E n \in Names : StartBackup(p, n)
    \/ CreatePart(p) \/ CreateFails(p) \/ Write(p) \/ WriteFails(p)
    \/ Rename(p) \/ RenameFails(p)
    \/ StartPrune(p) \/ (\E n \in Dated : PruneOne(p, n)) \/ PruneDone(p)
    \/ Killed(p)

Spec == Init /\ [][Next]_vars

-----------------------------------------------------------------------------
(***************************************************************************)
(* Properties.                                                             *)
(***************************************************************************)
\* An archive in place is whole, whoever failed or was killed, unless the
\* process that put it there shared the .part file with another one that
\* backed up under the same name at the same time (create_tarball).
WholeInPlace == \A n \in Names \ shared : archive[n] \in {Absent, Whole}

\* An archive is removed only if it is of a release with Keep newer ones in
\* place at that moment, however old the list it was on; one that has no
\* release in its name never is (prune_bin_archives).
NewestKept ==
  [][\A n \in Names : archive[n] # Absent /\ archive'[n] = Absent =>
       n \in Dated /\ Cardinality(Newer(Release[n])) >= Keep]_vars

(***************************************************************************)
(* What the argument rests on.                                             *)
(***************************************************************************)
\* Who has a file open is at work; only a process that was joined has it
\* under another's archive.
OpenInv ==
  \A p \in Procs :
    /\ pc[p] = "write" <=> fd[p] # "none"
    /\ pc[p] \in {"tar", "write", "rename"} => name[p] \in Names
    /\ fd[p] = "archive" => p \notin alone /\ name[p] \in shared

\* A process that is alone is so, and what it has written is whole, if it
\* has not been removed by one that failed.
AloneInv ==
  \A p \in alone :
    /\ pc[p] \in {"write", "rename"}
    /\ \A q \in Procs : Works(q, name[p]) => q = p
    /\ pc[p] = "rename" => part[name[p]] \in {Absent, Whole}
    /\ fd[p] = "gone" => part[name[p]] = Absent

\* What is on a list to prune has Keep newer releases in place.
KeepInv == \A p \in Procs : \A n \in todo[p] : Cardinality(Newer(Release[n])) >= Keep

IInv == TypeOK /\ WholeInPlace /\ OpenInv /\ AloneInv /\ KeepInv
=============================================================================
