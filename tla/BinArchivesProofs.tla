-------------------------- MODULE BinArchivesProofs --------------------------
(***************************************************************************)
(* Proofs about BinArchives, for any number of processes, names and        *)
(* releases: an archive put in place by a process that was alone is whole, *)
(* and pruning keeps the newest.                                           *)
(***************************************************************************)
EXTENDS BinArchives, FiniteSetTheorems, TLAPS

USE DEF files, vars

-----------------------------------------------------------------------------
(***************************************************************************)
(* Releases.                                                               *)
(***************************************************************************)
LEMMA Different == Absent # Cut /\ Absent # Torn /\ Absent # Whole
<1>1. ASSUME Absent \in {Cut, Torn, Whole} PROVE FALSE
  <2>1. Contents = {Cut, Torn, Whole}
    BY <1>1 DEF Contents
  <2>2. IsFiniteSet({Cut, Torn}) /\ Cardinality({Cut, Torn}) <= 2
    <3>1. IsFiniteSet({}) /\ Cardinality({}) = 0
      BY FS_EmptySet
    <3>2. {} \cup {Cut} = {Cut} /\ {Cut} \cup {Torn} = {Cut, Torn}
      OBVIOUS
    <3>3. IsFiniteSet({Cut}) /\ Cardinality({Cut}) = 1
      BY <3>1, <3>2, FS_AddElement
    <3> QED
      BY <3>2, <3>3, FS_AddElement
  <2>3. {Cut, Torn} \cup {Whole} = {Cut, Torn, Whole}
    OBVIOUS
  <2>4. Cardinality({Cut, Torn, Whole}) <= 3
    BY <2>2, <2>3, FS_AddElement, FS_CardinalityType
  <2> QED
    BY <2>1, <2>4, BackupsAssumption
<1> QED
  BY <1>1

LEMMA ReleasesFinite ==
  ASSUME NEW S, S \subseteq Dated
  PROVE  IsFiniteSet({Release[n] : n \in S})
<1> DEFINE T == {Release[n] : n \in S}
           f == [n \in S |-> Release[n]]
<1>1. IsFiniteSet(S)
  <2>1. S \subseteq Names
    BY BackupsAssumption
  <2> QED
    BY <2>1, BackupsAssumption, FS_Subset
<1>2. f \in [S -> T] /\ \A v \in T : \E n \in S : f[n] = v
  OBVIOUS
<1>3. f \in Surjection(S, T)
  BY <1>2 DEF Surjection
<1> QED
  BY <1>1, <1>3, FS_Surjection

LEMMA EnoughGrows ==
  ASSUME NEW S, NEW T, S \subseteq T, IsFiniteSet(T), Cardinality(S) >= Keep
  PROVE  Cardinality(T) >= Keep
<1>1. IsFiniteSet(S) /\ Cardinality(S) <= Cardinality(T)
  BY FS_Subset
<1>2. Cardinality(S) \in Nat /\ Cardinality(T) \in Nat
  BY <1>1, FS_CardinalityType
<1> QED
  BY <1>1, <1>2, BackupsAssumption

LEMMA NewerFinite ==
  ASSUME NEW v
  PROVE  IsFiniteSet(Newer(v)) /\ IsFiniteSet(Newer(v)')
<1>1. IsFiniteSet(Listed) /\ IsFiniteSet(Listed')
  <2>1. {m \in Dated : archive[m] # Absent} \subseteq Dated /\ {m \in Dated : archive'[m] # Absent} \subseteq Dated
    OBVIOUS
  <2> QED
    BY <2>1, ReleasesFinite DEF Listed
<1>2. Newer(v) \subseteq Listed /\ Newer(v)' \subseteq Listed'
  BY DEF Newer
<1> QED
  BY <1>1, <1>2, FS_Subset

\* More archives in place leave Keep newer releases in place.
LEMMA KeptOnAdding ==
  ASSUME KeepInv, \A p \in Procs : todo'[p] \subseteq todo[p],
         \A n \in Dated : archive[n] # Absent => archive'[n] # Absent
  PROVE  KeepInv'
<1> SUFFICES ASSUME NEW p \in Procs, NEW n \in todo'[p]
             PROVE  Cardinality(Newer(Release[n])') >= Keep
  BY DEF KeepInv
<1>1. Cardinality(Newer(Release[n])) >= Keep
  BY DEF KeepInv
<1>2. Newer(Release[n]) \subseteq Newer(Release[n])'
  BY DEF Newer, Listed
<1> QED
  BY <1>1, <1>2, NewerFinite, EnoughGrows

\* So does removing an archive that has Keep newer ones itself.
LEMMA KeptOnRemoval ==
  ASSUME KeepInv, TypeOK, NEW q \in Procs, NEW m \in todo[q],
         archive' = [archive EXCEPT ![m] = Absent],
         \A p \in Procs : todo'[p] \subseteq todo[p]
  PROVE  KeepInv'
<1> SUFFICES ASSUME NEW p \in Procs, NEW n \in todo'[p]
             PROVE  Cardinality(Newer(Release[n])') >= Keep
  BY DEF KeepInv
<1> DEFINE u == Release[m]
           v == Release[n]
<1>1. Cardinality(Newer(u)) >= Keep /\ Cardinality(Newer(v)) >= Keep
  BY DEF KeepInv
<1>2. u \in Nat /\ v \in Nat /\ Release \in [Dated -> Nat] /\ m \in Dated
  BY BackupsAssumption DEF TypeOK
<1>3. \A w \in Listed : w # u => w \in Listed'
  BY <1>2, BackupsAssumption DEF TypeOK, Listed
<1>4. \A w \in Listed : w \in Nat
  BY <1>2 DEF Listed
<1> HIDE DEF u, v
<1>5. CASE u <= v
  <2>1. Newer(v) \subseteq Newer(v)'
    BY <1>2, <1>3, <1>4, <1>5 DEF Newer
  <2> QED
    BY <1>1, <2>1, NewerFinite, EnoughGrows DEF v
<1>6. CASE u > v
  <2>1. Newer(u) \subseteq Newer(v)'
    BY <1>2, <1>3, <1>4, <1>6 DEF Newer
  <2> QED
    BY <1>1, <2>1, NewerFinite, EnoughGrows DEF v
<1> QED
  BY <1>2, <1>5, <1>6

-----------------------------------------------------------------------------
(***************************************************************************)
(* Every step keeps the invariant.                                         *)
(***************************************************************************)
LEMMA InitInv == Init => IInv
BY DEF Init, IInv, TypeOK, Contents, WholeInPlace, OpenInv, AloneInv, KeepInv

\* A process that is not at work has no file open and is not alone.
LEMMA AtRest ==
  ASSUME IInv, NEW p \in Procs, pc[p] \notin {"write", "rename"}
  PROVE  p \notin alone /\ fd[p] = "none"
BY DEF IInv, TypeOK, OpenInv, AloneInv

LEMMA StartBackupInv ==
  ASSUME IInv, NEW p \in Procs, NEW n \in Names, StartBackup(p, n)
  PROVE  IInv'
<1>1. TypeOK'
  BY DEF IInv, TypeOK, StartBackup
<1>2. WholeInPlace' /\ KeepInv'
  BY DEF IInv, StartBackup, WholeInPlace, KeepInv, Newer, Listed
<1>3. pc[p] = "idle" /\ p \notin alone /\ fd[p] = "none"
  BY AtRest DEF StartBackup
<1>4. OpenInv'
  BY <1>3 DEF IInv, TypeOK, StartBackup, OpenInv
<1>5. AloneInv'
  BY <1>3 DEF IInv, TypeOK, StartBackup, AloneInv, Works
<1> QED
  BY <1>1, <1>2, <1>4, <1>5 DEF IInv

LEMMA CreatePartInv ==
  ASSUME IInv, NEW p \in Procs, CreatePart(p)
  PROVE  IInv'
<1> DEFINE n == name[p]
<1>1. /\ pc[p] = "tar" /\ n \in Names /\ p \notin alone /\ fd[p] = "none"
      /\ archive' = archive /\ name' = name /\ todo' = todo /\ shared' = shared
      /\ part' = [part EXCEPT ![n] = Cut]
      /\ fd' = [fd EXCEPT ![p] = "part"]
      /\ pc' = [pc EXCEPT ![p] = "write"]
      /\ TypeOK /\ OpenInv /\ AloneInv
  BY AtRest DEF IInv, CreatePart, OpenInv
<1>2. alone' \subseteq alone \cup {p}
  BY DEF CreatePart
<1>3. TypeOK'
  BY <1>1, <1>2 DEF TypeOK, Contents
<1>4. WholeInPlace' /\ KeepInv'
  BY <1>1 DEF IInv, WholeInPlace, KeepInv, Newer, Listed
<1>5. OpenInv'
  BY <1>1, <1>2 DEF TypeOK, OpenInv
<1>6. AloneInv'
  <2>1. ASSUME NEW q \in alone, q \in alone'
        PROVE  q \in Procs /\ q # p /\ name[q] # n /\ pc[q] \in {"write", "rename"}
    BY <1>1, <2>1 DEF CreatePart, TypeOK, AloneInv, Works
  <2>2. ASSUME NEW q \in alone, q \in alone'
        PROVE  /\ pc'[q] \in {"write", "rename"}
               /\ \A r \in Procs : Works(r, name[q])' => r = q
               /\ pc'[q] = "rename" => part'[name'[q]] \in {Absent, Whole}
               /\ fd'[q] = "gone" => part'[name'[q]] = Absent
    BY <1>1, <2>1, <2>2 DEF TypeOK, AloneInv, Works
  <2>3. ASSUME p \in alone'
        PROVE  \A r \in Procs : Works(r, name[p])' => r = p
    BY <1>1, <2>3 DEF CreatePart, TypeOK, Works
  <2>4. pc'[p] = "write" /\ fd'[p] = "part"
    BY <1>1 DEF TypeOK
  <2> QED
    BY <1>1, <1>2, <2>2, <2>3, <2>4 DEF AloneInv
<1> QED
  BY <1>3, <1>4, <1>5, <1>6 DEF IInv

LEMMA WriteInv ==
  ASSUME IInv, NEW p \in Procs, Write(p)
  PROVE  IInv'
<1> DEFINE n == name[p]
<1>1. /\ pc[p] = "write" /\ n \in Names /\ fd[p] \in {"part", "archive", "gone"}
      /\ name' = name /\ todo' = todo /\ shared' = shared /\ alone' = alone
      /\ fd' = [fd EXCEPT ![p] = "none"]
      /\ pc' = [pc EXCEPT ![p] = "rename"]
      /\ TypeOK /\ WholeInPlace /\ OpenInv /\ AloneInv /\ KeepInv
  BY DEF IInv, Write, OpenInv, TypeOK, Close
<1>2. PICK c \in Written(p) : Becomes(p, c)
  BY DEF Write
<1>3. c \in {Whole, Torn} /\ (p \in alone => c = Whole)
  BY <1>2 DEF Written
<1>4. TypeOK'
  BY <1>1, <1>2, <1>3 DEF TypeOK, Contents, Becomes
<1>5. WholeInPlace'
  BY <1>1, <1>2 DEF TypeOK, WholeInPlace, OpenInv, Becomes
<1>6. OpenInv'
  BY <1>1 DEF TypeOK, OpenInv
<1>7. AloneInv'
  <2>1. ASSUME NEW q \in alone
        PROVE  /\ pc'[q] \in {"write", "rename"}
               /\ \A r \in Procs : Works(r, name[q])' => r = q
    BY <1>1 DEF TypeOK, AloneInv, Works
  <2>2. ASSUME NEW q \in alone, q # p
        PROVE  /\ pc'[q] = "rename" => part'[name[q]] \in {Absent, Whole}
               /\ fd'[q] = "gone" => part'[name[q]] = Absent
    <3>1. name[q] # n /\ q \in Procs
      BY <1>1, <2>2 DEF TypeOK, AloneInv, Works
    <3>2. part'[name[q]] = part[name[q]] /\ pc'[q] = pc[q] /\ fd'[q] = fd[q]
      BY <1>1, <1>2, <2>2, <3>1 DEF TypeOK, Becomes
    <3> QED
      BY <1>1, <3>2 DEF AloneInv
  <2>3. ASSUME p \in alone
        PROVE  part'[n] \in {Absent, Whole}
    <3>1. fd[p] = "part" => part'[n] = Whole
      BY <1>1, <1>2, <1>3, <2>3 DEF TypeOK, Becomes
    <3>2. fd[p] = "gone" => part'[n] = Absent
      BY <1>1, <1>2, <2>3 DEF AloneInv, Becomes
    <3> QED
      BY <1>1, <2>3, <3>1, <3>2 DEF OpenInv
  <2>4. fd'[p] = "none"
    BY <1>1 DEF TypeOK
  <2> QED
    BY <1>1, <2>1, <2>2, <2>3, <2>4 DEF AloneInv
<1>8. KeepInv'
  <2>1. \A m \in Dated : archive[m] # Absent => archive'[m] # Absent
    BY <1>1, <1>2, <1>3, Different, BackupsAssumption DEF TypeOK, Becomes
  <2> QED
    BY <1>1, <2>1, KeptOnAdding
<1> QED
  BY <1>4, <1>5, <1>6, <1>7, <1>8 DEF IInv

\* An operation ends: what it leaves of its .part file may be cut, torn or
\* gone, and only a process that was joined leaves a mark on an archive.
LEMMA EndInv ==
  ASSUME IInv, NEW p \in Procs, End(p), shared' = shared,
         archive' \in [Names -> Contents], part' \in [Names -> Contents],
         fd' \in [Procs -> {"none", "part", "archive", "gone"}],
         \A m \in Names : archive[m] # Absent => archive'[m] # Absent,
         \A m \in Names \ shared : archive'[m] = archive[m],
         fd'[p] = "none",
         \A q \in Procs \ {p} :
           /\ fd'[q] = "none" <=> fd[q] = "none"
           /\ fd'[q] = "archive" <=> fd[q] = "archive",
         \A q \in alone \ {p} :
           /\ part'[name[q]] \in {part[name[q]], Absent}
           /\ fd'[q] = "gone" => fd[q] = "gone" \/ part'[name[q]] = Absent
  PROVE  IInv'
<1>1. /\ alone' = alone \ {p}
      /\ name' = [name EXCEPT ![p] = Absent]
      /\ pc' = [pc EXCEPT ![p] = "idle"]
      /\ todo' = [todo EXCEPT ![p] = {}]
      /\ TypeOK /\ WholeInPlace /\ OpenInv /\ AloneInv /\ KeepInv
  BY DEF IInv, End
<1>2. TypeOK'
  BY <1>1 DEF TypeOK
<1>3. WholeInPlace'
  BY <1>1 DEF WholeInPlace
<1>4. KeepInv'
  <2>1. \A q \in Procs : todo'[q] \subseteq todo[q]
    BY <1>1 DEF TypeOK
  <2>2. \A m \in Dated : archive[m] # Absent => archive'[m] # Absent
    BY BackupsAssumption
  <2> QED
    BY <1>1, <2>1, <2>2, KeptOnAdding
<1>5. pc'[p] = "idle" /\ \A q \in Procs \ {p} : pc'[q] = pc[q] /\ name'[q] = name[q]
  BY <1>1 DEF TypeOK
<1>6. OpenInv'
  <2>1. ASSUME NEW q \in Procs \ {p}
        PROVE  /\ pc'[q] = "write" <=> fd'[q] # "none"
               /\ pc'[q] \in {"tar", "write", "rename"} => name'[q] \in Names
               /\ fd'[q] = "archive" => q \notin alone' /\ name'[q] \in shared'
    BY <1>1, <1>5 DEF OpenInv
  <2> QED
    BY <1>5, <2>1 DEF OpenInv
<1>7. AloneInv'
  <2> SUFFICES ASSUME NEW q \in alone'
               PROVE  /\ pc'[q] \in {"write", "rename"}
                      /\ \A r \in Procs : Works(r, name[q])' => r = q
                      /\ pc'[q] = "rename" => part'[name'[q]] \in {Absent, Whole}
                      /\ fd'[q] = "gone" => part'[name'[q]] = Absent
    BY DEF AloneInv
  <2>1. q \in Procs /\ q # p /\ q \in alone /\ pc'[q] = pc[q] /\ name'[q] = name[q]
    BY <1>1, <1>5 DEF TypeOK
  <2>2. ASSUME NEW r \in Procs, Works(r, name[q])'
        PROVE  r = q
    <3>1. pc'[r] \in {"write", "rename"} /\ name'[r] = name'[q]
      BY <2>2 DEF Works
    <3>2. r # p
      BY <1>5, <3>1
    <3>3. Works(r, name[q])
      BY <1>5, <2>1, <3>1, <3>2 DEF Works
    <3> QED
      BY <1>1, <2>1, <3>3 DEF AloneInv
  <2>3. (pc'[q] = "rename" => part'[name'[q]] \in {Absent, Whole})
        /\ (fd'[q] = "gone" => part'[name'[q]] = Absent)
    BY <1>1, <2>1 DEF AloneInv
  <2> QED
    BY <1>1, <2>1, <2>2, <2>3 DEF AloneInv
<1> QED
  BY <1>2, <1>3, <1>4, <1>6, <1>7 DEF IInv

LEMMA CreateFailsInv ==
  ASSUME IInv, NEW p \in Procs, CreateFails(p)
  PROVE  IInv'
<1> DEFINE n == name[p]
<1>1. /\ n \in Names /\ p \notin alone /\ fd[p] = "none" /\ TypeOK
      /\ archive' = archive /\ shared' = shared /\ End(p)
  BY AtRest DEF IInv, CreateFails, OpenInv
<1>2. CASE UNCHANGED <<part, fd>>
  BY <1>1, <1>2, EndInv DEF TypeOK
<1>3. CASE /\ part' = [part EXCEPT ![n] = Absent]
           /\ fd' = Follow(n, fd, "part", "gone")
  <2>1. fd' = [q \in Procs |-> IF name[q] = n /\ fd[q] = "part" THEN "gone" ELSE fd[q]]
    BY <1>3 DEF Follow
  <2>2. fd' \in [Procs -> {"none", "part", "archive", "gone"}] /\ fd'[p] = "none"
    BY <1>1, <2>1 DEF TypeOK
  <2>3. part' \in [Names -> Contents] /\ \A m \in Names : part'[m] = IF m = n THEN Absent ELSE part[m]
    BY <1>1, <1>3 DEF TypeOK, Contents
  <2>4. ASSUME NEW q \in alone
        PROVE  /\ part'[name[q]] \in {part[name[q]], Absent}
               /\ fd'[q] = "gone" => fd[q] = "gone" \/ part'[name[q]] = Absent
    <3>1. q \in Procs /\ name[q] \in Names
      BY <1>1 DEF IInv, TypeOK, OpenInv, AloneInv
    <3> QED
      BY <1>1, <2>1, <2>3, <3>1
  <2>5. \A q \in Procs : (fd'[q] = "none" <=> fd[q] = "none") /\ (fd'[q] = "archive" <=> fd[q] = "archive")
    BY <2>1
  <2> QED
    BY <1>1, <2>2, <2>3, <2>4, <2>5, EndInv DEF TypeOK
<1> QED
  BY <1>2, <1>3 DEF CreateFails

\* What a process leaves of the file it was writing to.
LEMMA LeftBehind ==
  ASSUME IInv, NEW p \in Procs, pc[p] = "write", NEW c \in Begun(p, Content(p))
  PROVE  /\ name[p] \in Names /\ c \in Contents
         /\ fd[p] = "archive" => name[p] \in shared
         /\ c = Absent => Content(p) = Absent
         /\ \A q \in alone \ {p} : q \in Procs /\ name[q] \in Names /\ name[q] # name[p]
         /\ p \in alone => c = Content(p)
<1>1. TypeOK /\ OpenInv /\ AloneInv
  BY DEF IInv
<1>2. name[p] \in Names
  BY <1>1 DEF OpenInv
<1>3. Content(p) \in Contents
  BY <1>1, <1>2 DEF TypeOK, Content
<1>4. ASSUME NEW q \in alone \ {p}
      PROVE  q \in Procs /\ name[q] \in Names /\ name[q] # name[p]
  BY <1>1 DEF TypeOK, OpenInv, AloneInv, Works
<1> QED
  BY <1>1, <1>2, <1>3, <1>4, Different DEF Begun, Contents, OpenInv

LEMMA WriteFailsInv ==
  ASSUME IInv, NEW p \in Procs, WriteFails(p)
  PROVE  IInv'
<1> DEFINE n == name[p]
<1>1. pc[p] = "write" /\ shared' = shared /\ End(p) /\ TypeOK
  BY DEF WriteFails, IInv
<1>2. PICK c \in Begun(p, Content(p)) :
        \/ Becomes(p, c) /\ fd' = Close(p)
        \/ /\ archive' = IF fd[p] = "archive" THEN [archive EXCEPT ![n] = c] ELSE archive
           /\ part' = [part EXCEPT ![n] = Absent]
           /\ fd' = Follow(n, Close(p), "part", "gone")
  BY DEF WriteFails
<1>3. /\ n \in Names /\ c \in Contents
      /\ fd[p] = "archive" => n \in shared
      /\ c = Absent => Content(p) = Absent
      /\ \A q \in alone \ {p} : q \in Procs /\ name[q] \in Names /\ name[q] # n
  BY <1>1, <1>2, LeftBehind
<1>4. archive' = IF fd[p] = "archive" THEN [archive EXCEPT ![n] = c] ELSE archive
  BY <1>2 DEF Becomes
<1>5. /\ archive' \in [Names -> Contents]
      /\ \A m \in Names \ shared : archive'[m] = archive[m]
      /\ \A m \in Names : archive[m] # Absent => archive'[m] # Absent
  BY <1>1, <1>3, <1>4 DEF TypeOK, Content
<1>6. part' \in [Names -> Contents] /\ \A m \in Names \ {n} : part'[m] = part[m]
  BY <1>1, <1>2, <1>3 DEF TypeOK, Becomes, Contents
<1>7. /\ fd' \in [Procs -> {"none", "part", "archive", "gone"}] /\ fd'[p] = "none"
      /\ \A q \in Procs \ {p} :
           /\ fd'[q] = "none" <=> fd[q] = "none"
           /\ fd'[q] = "archive" <=> fd[q] = "archive"
           /\ name[q] # n => fd'[q] = fd[q]
  BY <1>1, <1>2 DEF TypeOK, Close, Follow
<1> QED
  BY <1>1, <1>3, <1>5, <1>6, <1>7, EndInv

LEMMA KilledInv ==
  ASSUME IInv, NEW p \in Procs, Killed(p)
  PROVE  IInv'
<1>1. shared' = shared /\ End(p) /\ TypeOK /\ fd' = [fd EXCEPT ![p] = "none"]
  BY DEF Killed, IInv, Close
<1>2. /\ fd' \in [Procs -> {"none", "part", "archive", "gone"}] /\ fd'[p] = "none"
      /\ \A q \in Procs \ {p} : fd'[q] = fd[q]
  BY <1>1 DEF TypeOK
<1>3. CASE pc[p] = "write"
  <2>1. PICK c \in Begun(p, Content(p)) : Becomes(p, c)
    BY <1>3 DEF Killed
  <2>2. /\ name[p] \in Names /\ c \in Contents
        /\ fd[p] = "archive" => name[p] \in shared
        /\ c = Absent => Content(p) = Absent
        /\ \A q \in alone \ {p} : q \in Procs /\ name[q] \in Names /\ name[q] # name[p]
    BY <1>3, <2>1, LeftBehind
  <2>3. /\ archive' \in [Names -> Contents]
        /\ \A m \in Names \ shared : archive'[m] = archive[m]
        /\ \A m \in Names : archive[m] # Absent => archive'[m] # Absent
    BY <1>1, <2>1, <2>2 DEF TypeOK, Content, Becomes
  <2>4. part' \in [Names -> Contents] /\ \A m \in Names \ {name[p]} : part'[m] = part[m]
    BY <1>1, <2>1, <2>2 DEF TypeOK, Becomes
  <2> QED
    BY <1>1, <1>2, <2>2, <2>3, <2>4, EndInv
<1>4. CASE pc[p] # "write"
  <2>1. UNCHANGED files
    BY <1>4 DEF Killed
  <2>2. alone \subseteq Procs
    BY <1>1 DEF TypeOK
  <2> QED
    BY <1>1, <1>2, <2>1, <2>2, EndInv DEF TypeOK
<1> QED
  BY <1>3, <1>4

LEMMA QuietEndInv ==
  ASSUME IInv, NEW p \in Procs, RenameFails(p) \/ PruneDone(p)
  PROVE  IInv'
<1>1. pc[p] \in {"rename", "prune"} /\ shared' = shared /\ End(p) /\ TypeOK /\ UNCHANGED <<files, fd>>
  BY DEF RenameFails, PruneDone, IInv
<1>2. fd[p] = "none"
  BY <1>1 DEF IInv, OpenInv, TypeOK
<1> QED
  BY <1>1, <1>2, EndInv DEF TypeOK

LEMMA RenameInv ==
  ASSUME IInv, NEW p \in Procs, Rename(p)
  PROVE  IInv'
<1> DEFINE n == name[p]
<1>1. /\ pc[p] = "rename" /\ n \in Names /\ part[n] # Absent /\ fd[p] = "none"
      /\ archive' = [archive EXCEPT ![n] = part[n]]
      /\ part' = [part EXCEPT ![n] = Absent]
      /\ shared' = IF p \in alone THEN shared \ {n} ELSE shared \cup {n}
      /\ alone' = alone \ {p}
      /\ name' = [name EXCEPT ![p] = Absent]
      /\ pc' = [pc EXCEPT ![p] = "idle"]
      /\ todo' = [todo EXCEPT ![p] = {}]
      /\ TypeOK /\ WholeInPlace /\ OpenInv /\ AloneInv /\ KeepInv
  BY DEF IInv, Rename, End, OpenInv, TypeOK
<1>2. /\ fd' \in [Procs -> {"none", "part", "archive", "gone"}]
      /\ \A q \in Procs :
           fd'[q] = IF name[q] # n THEN fd[q]
                    ELSE IF fd[q] = "archive" THEN "gone"
                    ELSE IF fd[q] = "part" THEN "archive" ELSE fd[q]
  BY <1>1 DEF Rename, Follow, TypeOK
<1>3. TypeOK'
  BY <1>1, <1>2 DEF TypeOK, Contents
<1>4. WholeInPlace'
  <2>1. p \in alone => part[n] = Whole
    BY <1>1 DEF AloneInv
  <2> QED
    BY <1>1, <2>1 DEF TypeOK, WholeInPlace
<1>5. \* Who else works under n is not alone, and neither is p then.
      \A q \in Procs \ {p} : Works(q, n) => p \notin alone /\ q \notin alone
  BY <1>1 DEF AloneInv, Works
<1>6. /\ pc'[p] = "idle" /\ fd'[p] = "none"
      /\ \A q \in Procs \ {p} : pc'[q] = pc[q] /\ name'[q] = name[q]
  BY <1>1, <1>2 DEF TypeOK
<1>7. OpenInv'
  <2>1. ASSUME NEW q \in Procs \ {p}
        PROVE  /\ pc'[q] = "write" <=> fd'[q] # "none"
               /\ pc'[q] \in {"tar", "write", "rename"} => name'[q] \in Names
    BY <1>1, <1>2, <1>6 DEF OpenInv
  <2>2. ASSUME NEW q \in Procs \ {p}, fd'[q] = "archive"
        PROVE  q \notin alone' /\ name'[q] \in shared'
    <3>1. CASE name[q] # n
      BY <1>1, <1>2, <1>6, <2>2, <3>1 DEF OpenInv
    <3>2. CASE name[q] = n
      <4>1. fd[q] = "part"
        BY <1>2, <2>2, <3>2
      <4>2. Works(q, n)
        BY <1>1, <3>2, <4>1 DEF OpenInv, Works
      <4> QED
        BY <1>1, <1>5, <1>6, <3>2, <4>2
    <3> QED
      BY <3>1, <3>2
  <2> QED
    BY <1>6, <2>1, <2>2 DEF OpenInv
<1>8. AloneInv'
  <2> SUFFICES ASSUME NEW q \in alone'
               PROVE  /\ pc'[q] \in {"write", "rename"}
                      /\ \A r \in Procs : Works(r, name[q])' => r = q
                      /\ pc'[q] = "rename" => part'[name'[q]] \in {Absent, Whole}
                      /\ fd'[q] = "gone" => part'[name'[q]] = Absent
    BY DEF AloneInv
  <2>1. q \in Procs /\ q # p /\ q \in alone /\ pc'[q] = pc[q] /\ name'[q] = name[q]
    BY <1>1, <1>6 DEF TypeOK
  <2>2. pc[q] \in {"write", "rename"} /\ name[q] \in Names
    BY <1>1, <2>1 DEF AloneInv, OpenInv
  <2>3. name[q] # n
    BY <1>5, <2>1, <2>2 DEF Works
  <2>4. part'[name[q]] = part[name[q]] /\ fd'[q] = fd[q]
    BY <1>1, <1>2, <2>1, <2>2, <2>3 DEF TypeOK
  <2>5. ASSUME NEW r \in Procs, Works(r, name[q])'
        PROVE  r = q
    <3>1. pc'[r] \in {"write", "rename"} /\ name'[r] = name'[q]
      BY <2>5 DEF Works
    <3>2. r # p
      BY <1>6, <3>1
    <3>3. Works(r, name[q])
      BY <1>6, <2>1, <3>1, <3>2 DEF Works
    <3> QED
      BY <1>1, <2>1, <3>3 DEF AloneInv
  <2> QED
    BY <1>1, <2>1, <2>2, <2>4, <2>5 DEF AloneInv
<1>9. KeepInv'
  <2>1. \A m \in Dated : archive[m] # Absent => archive'[m] # Absent
    BY <1>1, BackupsAssumption DEF TypeOK
  <2>2. \A q \in Procs : todo'[q] \subseteq todo[q]
    BY <1>1 DEF TypeOK
  <2> QED
    BY <1>1, <2>1, <2>2, KeptOnAdding
<1> QED
  BY <1>3, <1>4, <1>7, <1>8, <1>9 DEF IInv

LEMMA StartPruneInv ==
  ASSUME IInv, NEW p \in Procs, StartPrune(p)
  PROVE  IInv'
<1>1. /\ pc[p] = "idle" /\ p \notin alone /\ fd[p] = "none"
      /\ todo' = [todo EXCEPT ![p] = Superseded]
      /\ pc' = [pc EXCEPT ![p] = "prune"]
      /\ UNCHANGED <<files, name, fd, alone, shared>>
      /\ TypeOK /\ WholeInPlace /\ OpenInv /\ AloneInv /\ KeepInv
  BY AtRest DEF StartPrune, IInv
<1>2. TypeOK' /\ WholeInPlace' /\ OpenInv' /\ AloneInv'
  BY <1>1 DEF TypeOK, Superseded, WholeInPlace, OpenInv, AloneInv, Works
<1>3. KeepInv'
  <2>1. \A n \in Superseded : Cardinality(Newer(Release[n])) >= Keep
    BY DEF Superseded
  <2>2. \A q \in Procs : \A n \in todo'[q] : Cardinality(Newer(Release[n])) >= Keep
    BY <1>1, <2>1 DEF TypeOK, KeepInv
  <2> QED
    BY <1>1, <2>2 DEF KeepInv, Newer, Listed
<1> QED
  BY <1>2, <1>3 DEF IInv

LEMMA PruneOneInv ==
  ASSUME IInv, NEW p \in Procs, NEW n \in Dated, PruneOne(p, n)
  PROVE  IInv'
<1>1. /\ pc[p] = "prune" /\ n \in todo[p] /\ n \in Names
      /\ archive' = [archive EXCEPT ![n] = Absent]
      /\ todo' = [todo EXCEPT ![p] = @ \ {n}]
      /\ UNCHANGED <<part, pc, name, alone, shared>>
      /\ TypeOK /\ WholeInPlace /\ OpenInv /\ AloneInv /\ KeepInv
  BY BackupsAssumption DEF PruneOne, IInv
<1>2. /\ fd' \in [Procs -> {"none", "part", "archive", "gone"}]
      /\ \A q \in Procs : fd'[q] = IF name[q] = n /\ fd[q] = "archive" THEN "gone" ELSE fd[q]
  BY <1>1 DEF PruneOne, Follow, TypeOK
<1>3. TypeOK' /\ WholeInPlace'
  BY <1>1, <1>2 DEF TypeOK, Contents, WholeInPlace
<1>4. OpenInv'
  BY <1>1, <1>2 DEF OpenInv
<1>5. AloneInv'
  <2>1. \A q \in alone : q \in Procs /\ fd'[q] = fd[q]
    BY <1>1, <1>2 DEF TypeOK, OpenInv
  <2> QED
    BY <1>1, <2>1 DEF AloneInv, Works
<1>6. KeepInv'
  <2>1. \A q \in Procs : todo'[q] \subseteq todo[q]
    BY <1>1 DEF TypeOK
  <2> QED
    BY <1>1, <2>1, KeptOnRemoval
<1> QED
  BY <1>3, <1>4, <1>5, <1>6 DEF IInv

LEMMA StutterInv ==
  ASSUME IInv, UNCHANGED vars
  PROVE  IInv'
<1>1. TypeOK' /\ WholeInPlace' /\ OpenInv'
  BY DEF IInv, TypeOK, WholeInPlace, OpenInv
<1>2. AloneInv'
  BY DEF IInv, AloneInv, Works
<1>3. KeepInv'
  BY KeptOnAdding DEF IInv
<1> QED
  BY <1>1, <1>2, <1>3 DEF IInv

LEMMA NextInv == IInv /\ [Next]_vars => IInv'
<1> SUFFICES ASSUME IInv, [Next]_vars PROVE IInv'
  OBVIOUS
<1>1. CASE UNCHANGED vars
  BY <1>1, StutterInv
<1>2. ASSUME NEW p \in Procs, NEW n \in Names, StartBackup(p, n) PROVE IInv'
  BY <1>2, StartBackupInv
<1>3. ASSUME NEW p \in Procs, CreatePart(p) \/ CreateFails(p) \/ Write(p) \/ WriteFails(p) PROVE IInv'
  BY <1>3, CreatePartInv, CreateFailsInv, WriteInv, WriteFailsInv
<1>4. ASSUME NEW p \in Procs, Rename(p) \/ RenameFails(p) \/ PruneDone(p) PROVE IInv'
  BY <1>4, RenameInv, QuietEndInv
<1>5. ASSUME NEW p \in Procs, StartPrune(p) \/ Killed(p) PROVE IInv'
  BY <1>5, StartPruneInv, KilledInv
<1>6. ASSUME NEW p \in Procs, NEW n \in Dated, PruneOne(p, n) PROVE IInv'
  BY <1>6, PruneOneInv
<1> QED
  BY <1>1, <1>2, <1>3, <1>4, <1>5, <1>6 DEF Next

-----------------------------------------------------------------------------
(***************************************************************************)
(* The theorems.                                                           *)
(***************************************************************************)
\* Every reachable state of the archives and of the processes at work on them
\* satisfies IInv (create_tarball, prune_bin_archives).
THEOREM Invariance == Spec => []IInv
BY InitInv, NextInv, PTL DEF Spec

\* A backup whose process was alone under its name is whole once it is in
\* place, whatever fails or is killed (create_tarball).
THEOREM AloneIsWhole == Spec => []WholeInPlace
<1>1. IInv => WholeInPlace
  BY DEF IInv
<1> QED
  BY <1>1, Invariance, PTL

\* Only an archive with Keep newer releases in place is ever removed
\* (prune_bin_archives).
THEOREM NewestAreKept == Spec => NewestKept
<1>1. IInv /\ [Next]_vars =>
        [\A n \in Names : archive[n] # Absent /\ archive'[n] = Absent =>
           n \in Dated /\ Cardinality(Newer(Release[n])) >= Keep]_vars
  <2> SUFFICES ASSUME IInv, [Next]_vars, NEW n \in Names, archive[n] # Absent, archive'[n] = Absent
               PROVE  n \in Dated /\ Cardinality(Newer(Release[n])) >= Keep
    OBVIOUS
  <2>1. TypeOK /\ KeepInv
    BY DEF IInv
  <2>2. PICK p \in Procs :
          \/ Write(p) \/ WriteFails(p) \/ Rename(p) \/ Killed(p)
          \/ \E m \in Dated : PruneOne(p, m)
    BY DEF Next, StartBackup, CreatePart, CreateFails, RenameFails, StartPrune, PruneDone
  <2>3. ASSUME Write(p)
        PROVE  FALSE
    <3>1. PICK c \in Written(p) : Becomes(p, c)
      BY <2>3 DEF Write
    <3> QED
      BY <2>1, <3>1, Different DEF Written, Becomes, TypeOK
  <2>4. ASSUME pc[p] = "write", NEW c \in Begun(p, Content(p)),
               archive' = IF fd[p] = "archive" THEN [archive EXCEPT ![name[p]] = c] ELSE archive
        PROVE  FALSE
    BY <2>1, <2>4, LeftBehind DEF Content, TypeOK
  <2>5. ASSUME WriteFails(p) \/ Killed(p)
        PROVE  FALSE
    <3>1. pc[p] # "write" => archive' = archive
      BY <2>5 DEF WriteFails, Killed
    <3>2. pc[p] = "write" => \E c \in Begun(p, Content(p)) :
            archive' = IF fd[p] = "archive" THEN [archive EXCEPT ![name[p]] = c] ELSE archive
      BY <2>5 DEF WriteFails, Killed, Becomes
    <3> QED
      BY <2>4, <3>1, <3>2
  <2>6. ASSUME Rename(p)
        PROVE  FALSE
    BY <2>1, <2>6 DEF Rename, TypeOK
  <2>7. ASSUME NEW m \in Dated, PruneOne(p, m)
        PROVE  n \in Dated /\ Cardinality(Newer(Release[n])) >= Keep
    <3>1. m = n /\ n \in todo[p]
      BY <2>1, <2>7 DEF PruneOne, TypeOK
    <3> QED
      BY <2>1, <3>1 DEF KeepInv
  <2> QED
    BY <2>2, <2>3, <2>5, <2>6, <2>7
<1> QED
  BY <1>1, Invariance, PTL DEF Spec, NewestKept
=============================================================================
