------------------------------ MODULE Extraction ------------------------------
(***************************************************************************)
(* From an archive to the directory a build reads: every entry is scanned, *)
(* then the entries are extracted into a new temporary directory, without  *)
(* the top-level directory they have in common, and the CSV files in it    *)
(* are looked at.  The temporary directory is the process's own; it goes   *)
(* when the extraction fails.                                              *)
(***************************************************************************)
EXTENDS Integers, Sequences

CONSTANTS
  Archives,    \* the archives extracted: sequences of entries
  Components,  \* of a path
  Required,    \* the three CSV files
  MaxBytes,    \* MAX_EXTRACT_BYTES
  None

(***************************************************************************)
(* An entry's name is good, is refused by the scan, or has no path within  *)
(* a directory (enclosed_name).  Its content is a CSV file with every      *)
(* column a build reads, is narrow, with only the columns that are asked   *)
(* for here, or is neither.                                                *)
(***************************************************************************)
Entries ==
  [path : Seq(Components), dir : BOOLEAN, size : Nat,
   name : {"good", "refused", "unsafe"}, csv : {"good", "narrow", "bad"}]

ASSUME ExtractionAssumption ==
  /\ Archives \subseteq Seq(Entries)
  /\ Required \subseteq Components
  /\ MaxBytes \in Nat
  /\ None \notin Components

VARIABLES
  archive,
  phase,
  pos,          \* the entry scanned or extracted next
  prefix,     \* the first component seen, and then the one to strip
  nested,     \* has_nested: some path has more than one
  ambiguous,  \* prefix_ambiguous: there are two
  out,        \* the temporary directory
  total       \* total_written

extraction == <<archive, phase, pos, prefix, nested, ambiguous, out, total>>

\* What is at a path: the entry it was written from, 0 for a directory.
Things == [of : Nat, bytes : Nat]
Folder == [of |-> 0, bytes |-> 0]

ExtractionTypeOK ==
  /\ archive \in Archives \cup {<<>>}
  /\ phase \in {"open", "scan", "extract", "validate", "done", "failed", "handed"}
  /\ pos \in Nat /\ pos >= 1
  /\ prefix \in Components \cup {None}
  /\ nested \in BOOLEAN /\ ambiguous \in BOOLEAN
  /\ DOMAIN out \subseteq Seq(Components)
  /\ \A path \in DOMAIN out : out[path] \in Things
  /\ total \in Nat

ExtractionInit ==
  /\ archive \in Archives
  /\ phase = "open"
  /\ pos = 1
  /\ prefix = None /\ nested = FALSE /\ ambiguous = FALSE
  /\ out = <<>>
  /\ total = 0

Entry == archive[pos]

\* The temporary directory is dropped.
Fail ==
  /\ phase' = "failed"
  /\ out' = <<>>
  /\ UNCHANGED <<archive, pos, prefix, nested, ambiguous, total>>

\* The archive has a ZIP signature and a directory; the scan begins.
Open ==
  /\ phase = "open"
  /\ phase' = "scan"
  /\ UNCHANGED <<archive, pos, prefix, nested, ambiguous, out, total>>

\* Anything else that goes wrong on the way.
Fails == phase \in {"open", "scan", "extract", "validate"} /\ Fail

(***************************************************************************)
(* scan_zip_entries.                                                       *)
(***************************************************************************)
\* Faulty: once two first components were seen, an entry is not looked at.
RefusedUntilTwo == ~ambiguous /\ Entry.name # "good"

Refused == Entry.name = "refused" \/ (Entry.name = "unsafe" /\ ~ambiguous)

ScanRefuses == phase = "scan" /\ pos \in DOMAIN archive /\ Refused /\ Fail

\* Once two first components were seen, only the names are looked at.
Seen ==
  IF ambiguous \/ Entry.path = <<>>
    THEN UNCHANGED <<prefix, nested, ambiguous>>
    ELSE LET first == Head(Entry.path) IN
           /\ nested' = (nested \/ Len(Entry.path) > 1)
           /\ prefix' = IF prefix = None THEN first ELSE prefix
           /\ ambiguous' = (prefix \notin {None, first})

ScanEntry ==
  /\ phase = "scan"
  /\ pos \in DOMAIN archive
  /\ ~Refused
  /\ Seen
  /\ pos' = pos + 1
  /\ UNCHANGED <<archive, phase, out, total>>

\* Faulty: two first components are no obstacle.
PrefixRegardless == IF nested THEN prefix ELSE None

\* The prefix to strip, if all paths have one and one is longer.
CommonPrefix == IF nested /\ ~ambiguous THEN prefix ELSE None

ScanDone ==
  /\ phase = "scan"
  /\ pos \notin DOMAIN archive
  /\ prefix' = CommonPrefix
  /\ phase' = "extract"
  /\ pos' = 1
  /\ UNCHANGED <<archive, nested, ambiguous, out, total>>

(***************************************************************************)
(* extract_archive_to_temp_capped.                                         *)
(***************************************************************************)
Relative(path) == IF prefix # None /\ path # <<>> THEN Tail(path) ELSE path

\* The directories on the way to a path, and the path itself.
Way(path) == {SubSeq(path, 1, n) : n \in 1 .. Len(path)}

IsFile(path) == path \in DOMAIN out /\ out[path].of # 0

IsFolder(path) == path \in DOMAIN out /\ out[path].of = 0

\* create_dir_all passes over directories that are there.
WithFolders(paths) ==
  [p \in DOMAIN out \cup paths |-> IF p \in DOMAIN out THEN out[p] ELSE Folder]

Extracting ==
  /\ phase = "extract"
  /\ pos \in DOMAIN archive
  /\ total <= MaxBytes

NextEntry ==
  /\ pos' = pos + 1
  /\ UNCHANGED <<archive, phase, prefix, nested, ambiguous>>

SkipEntry ==
  /\ Extracting
  /\ Entry.name = "good"
  /\ Relative(Entry.path) = <<>>
  /\ NextEntry
  /\ UNCHANGED <<out, total>>

ExtractFolder ==
  LET path == Relative(Entry.path) IN
    /\ Extracting
    /\ Entry.name = "good" /\ Entry.dir
    /\ path # <<>>
    /\ \A p \in Way(path) : ~IsFile(p)
    /\ out' = WithFolders(Way(path))
    /\ NextEntry
    /\ UNCHANGED total

\* Faulty: an entry is copied to its end, and counted then.
CopiedWhole(size) == size

\* At most one byte more than is left is copied.
Copied(size) == IF size <= MaxBytes - total THEN size ELSE MaxBytes - total + 1

\* A file that is there is written over.
ExtractFile ==
  LET path == Relative(Entry.path)
      n    == Copied(Entry.size)
      up   == Way(path) \ {path} IN
    /\ Extracting
    /\ Entry.name = "good" /\ ~Entry.dir
    /\ path # <<>>
    /\ \A p \in up : ~IsFile(p)
    /\ ~IsFolder(path)
    /\ out' = [p \in DOMAIN out \cup Way(path) |->
                 IF p = path THEN [of |-> pos, bytes |-> n] ELSE WithFolders(up)[p]]
    /\ total' = total + n
    /\ NextEntry

\* More than allowed, an entry without a path, or another kind in its place.
ExtractRefuses ==
  /\ phase = "extract"
  /\ \/ total > MaxBytes
     \/ Extracting /\ Entry.name # "good"
     \/ /\ Extracting
        /\ LET path == Relative(Entry.path) IN
             \/ \E p \in Way(path) : IsFile(p) /\ (Entry.dir \/ p # path)
             \/ ~Entry.dir /\ IsFolder(path)
  /\ Fail

ExtractDone ==
  /\ phase = "extract"
  /\ pos \notin DOMAIN archive
  /\ total <= MaxBytes
  /\ phase' = "validate"
  /\ UNCHANGED <<archive, pos, prefix, nested, ambiguous, out, total>>

(***************************************************************************)
(* validate_csv_contents.                                                  *)
(***************************************************************************)
\* Faulty: a file of the right name will do.
HasColumnsByName(f) == IsFile(<<f>>)

HasColumns(f) == IsFile(<<f>>) /\ archive[out[<<f>>].of].csv # "bad"

Validate ==
  /\ phase = "validate"
  /\ \A f \in Required : HasColumns(f)
  /\ phase' = "done"
  /\ UNCHANGED <<archive, pos, prefix, nested, ambiguous, out, total>>

Invalid == phase = "validate" /\ (\E f \in Required : ~HasColumns(f)) /\ Fail

ExtractionNext ==
  \/ Open \/ Fails
  \/ ScanEntry \/ ScanRefuses \/ ScanDone
  \/ SkipEntry \/ ExtractFolder \/ ExtractFile \/ ExtractRefuses \/ ExtractDone
  \/ Validate \/ Invalid

ExtractionSpec == ExtractionInit /\ [][ExtractionNext]_extraction

-----------------------------------------------------------------------------
(***************************************************************************)
(* Properties.                                                             *)
(***************************************************************************)
\* One byte over the limit is the most that is ever written, however long
\* the entries turn out to be (extract_archive_to_temp_capped).
BudgetHolds == total <= MaxBytes + 1

\* The last file entry of a path before k.
IsLast(j, k) ==
  /\ j < k
  /\ ~archive[j].dir
  /\ \A m \in DOMAIN archive : j < m /\ m < k /\ ~archive[m].dir => archive[m].path # archive[j].path

\* No file takes another's place though a directory is stripped from their
\* paths: each is there, in full, if no later entry has the same path
\* (scan_zip_entries, extract_archive_to_temp_capped).
NoneOverwritten ==
  phase \in {"extract", "validate", "done"} /\ total <= MaxBytes =>
    \A j \in DOMAIN archive :
      IsLast(j, pos) /\ Relative(archive[j].path) # <<>> =>
        /\ Relative(archive[j].path) \in DOMAIN out
        /\ out[Relative(archive[j].path)] = [of |-> j, bytes |-> archive[j].size]

\* Of an archive with an entry the scan refuses nothing is extracted, wherever
\* in the archive the entry is (scan_zip_entries).
RefusedLeavesNothing ==
  (\E j \in DOMAIN archive : archive[j].name = "refused") => out = <<>>

\* What a build is handed has each CSV file at the top, whole, with the
\* columns that were asked for, from an entry of that name
\* (extract_and_validate).
HandsOnValid ==
  phase = "done" =>
    \A f \in Required :
      \E j \in DOMAIN archive :
        /\ archive[j].path \in {<<f>>, <<prefix, f>>}
        /\ archive[j].csv # "bad"
        /\ <<f>> \in DOMAIN out
        /\ out[<<f>>] = [of |-> j, bytes |-> archive[j].size]

(***************************************************************************)
(* What the argument rests on.                                             *)
(***************************************************************************)
\* The entries the scan has passed begin with the prefix, if it is the only
\* one, and none is refused.
ScanInv ==
  /\ phase \in {"open", "scan", "failed", "handed"} => out = <<>>
  /\ phase \in {"open", "scan"} => total = 0
  /\ phase = "open" => pos = 1
  /\ phase = "scan" /\ ~ambiguous =>
       \A j \in DOMAIN archive :
         j < pos /\ archive[j].path # <<>> => prefix # None /\ Head(archive[j].path) = prefix
  /\ phase = "scan" =>
       \A j \in DOMAIN archive : j < pos => archive[j].name # "refused"

\* What is stripped from one path is stripped from all.
StripInv ==
  phase \in {"extract", "validate", "done"} =>
    \A j \in DOMAIN archive :
      /\ archive[j].name # "refused"
      /\ prefix # None /\ archive[j].path # <<>> => Head(archive[j].path) = prefix

\* Every file was written from an entry with its path, and in full.
FilesInv ==
  phase \in {"extract", "validate", "done"} =>
    \A path \in DOMAIN out :
      LET j == out[path].of IN
        j # 0 =>
          /\ j \in DOMAIN archive /\ j < pos
          /\ ~archive[j].dir
          /\ archive[j].path # <<>> /\ Relative(archive[j].path) = path
          /\ total <= MaxBytes => out[path].bytes = archive[j].size

\* All entries were extracted.
EndInv ==
  phase \in {"validate", "done"} => total <= MaxBytes

\* What was looked at has its columns.
ValidInv == phase = "done" => \A f \in Required : HasColumns(f)

ExtractionInv ==
  /\ ExtractionTypeOK
  /\ BudgetHolds
  /\ ScanInv /\ StripInv /\ FilesInv /\ EndInv /\ ValidInv
  /\ NoneOverwritten
=============================================================================
