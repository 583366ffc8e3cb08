---------------------------- MODULE CsvInputProofs ----------------------------
(***************************************************************************)
(* Of what a build reads, for all archives and every limit, for all        *)
(* geonames and any width of address: the extraction writes no more than   *)
(* the limit and a byte, no entry takes another's place, of an archive     *)
(* that is refused nothing is there, what is handed on has its files, and  *)
(* a row of a blocks file stands for what its text says.                   *)
(***************************************************************************)
EXTENDS CsvInput, SequenceTheorems, FiniteSetTheorems, WellFoundedInduction, TLAPS

-----------------------------------------------------------------------------
(***************************************************************************)
(* Induction.  The finite sets of numbers are well founded by inclusion, so *)
(* every set of numbers has a least; that needs no operator for what is    *)
(* proved, and a recursive function can be followed by it.                 *)
(***************************************************************************)
\* Every set of numbers has a least.
LEMMA LeastNumber ==
  ASSUME NEW B \in SUBSET Nat, B # {}
  PROVE  \E n \in B : \A m \in B : n <= m
<1> DEFINE T == {0 .. n : n \in B}
<1>1. T \subseteq FiniteSubsetsOf(Nat)
  <2> SUFFICES ASSUME NEW n \in B PROVE 0 .. n \in FiniteSubsetsOf(Nat)
    OBVIOUS
  <2>1. IsFiniteSet(0 .. n) /\ 0 .. n \in SUBSET Nat
    BY FS_Interval
  <2> QED
    BY <2>1 DEF FiniteSubsetsOf
<1>2. T # {}
  OBVIOUS
<1>3. PICK x \in T : \A y \in T : <<y, x>> \notin StrictSubsetOrdering(Nat)
  BY <1>1, <1>2, WFMin, FS_StrictSubsetOrderingWellFounded
<1>4. PICK n \in B : x = 0 .. n
  BY <1>3
<1>5. ASSUME NEW m \in B, m < n PROVE FALSE
  <2>1. 0 .. m \in T /\ 0 .. m \subseteq 0 .. n /\ 0 .. m # 0 .. n
    <3>1. n \in 0 .. n /\ n \notin 0 .. m
      BY <1>5
    <3> QED
      BY <1>5, <3>1
  <2>2. <<0 .. m, x>> \in StrictSubsetOrdering(Nat)
    BY <1>1, <1>3, <1>4, <2>1 DEF StrictSubsetOrdering
  <2> QED
    BY <1>3, <2>1, <2>2
<1> QED
  BY <1>4, <1>5

\* Induction.
LEMMA Induct ==
  ASSUME NEW S, 0 \in S, \A n \in Nat : n \in S => n + 1 \in S
  PROVE  Nat \subseteq S
<1> SUFFICES ASSUME Nat \ S # {} PROVE FALSE
  OBVIOUS
<1>1. PICK n \in Nat \ S : \A m \in Nat \ S : n <= m
  BY LeastNumber
<1>2. n - 1 \in Nat /\ n - 1 \in S
  BY <1>1
<1> QED
  BY <1>1, <1>2

\* What a recursive function has after each step.
Iterates(g, z, step, n) == g[0] = z /\ \A k \in 0 .. n - 1 : g[k + 1] = step[k][g[k]]

LEMMA Recursion ==
  ASSUME NEW T, NEW z \in T, NEW step \in [Nat -> [T -> T]], NEW n \in Nat
  PROVE  \E g \in [0 .. n -> T] : Iterates(g, z, step, n)
<1> DEFINE Reach(m, g) == g[0] = z /\ \A k \in 0 .. m - 1 : g[k + 1] = step[k][g[k]]
           S == {m \in Nat : \E g \in [0 .. m -> T] : Reach(m, g)}
<1>1. 0 \in S
  <2>1. [k \in 0 .. 0 |-> z] \in [0 .. 0 -> T] /\ Reach(0, [k \in 0 .. 0 |-> z])
    OBVIOUS
  <2> HIDE DEF Reach
  <2> QED
    BY <2>1
<1>2. ASSUME NEW m \in Nat, m \in S PROVE m + 1 \in S
  <2>1. PICK g \in [0 .. m -> T] : Reach(m, g)
    BY <1>2
  <2> DEFINE h == [k \in 0 .. m + 1 |-> IF k = m + 1 THEN step[m][g[m]] ELSE g[k]]
  <2>2. h \in [0 .. m + 1 -> T]
    OBVIOUS
  <2>3. Reach(m + 1, h)
    <3>1. h[0] = z
      BY <2>1
    <3>2. ASSUME NEW k \in 0 .. (m + 1) - 1 PROVE h[k + 1] = step[k][h[k]]
      <4>1. h[k] = g[k]
        OBVIOUS
      <4>2. CASE k = m
        BY <4>1, <4>2
      <4>3. CASE k # m
        <5>1. k \in 0 .. m - 1 /\ h[k + 1] = g[k + 1]
          BY <4>3
        <5> QED
          BY <2>1, <4>1, <5>1
      <4> QED
        BY <4>2, <4>3
    <3> QED
      BY <3>1, <3>2
  <2> HIDE DEF Reach, h
  <2> QED
    BY <2>2, <2>3
<1>3. n \in S
  <2> HIDE DEF S
  <2> QED
    BY <1>1, <1>2, Induct
<1> QED
  BY <1>3 DEF Iterates

-----------------------------------------------------------------------------
(***************************************************************************)
(* Powers of two and remainders.                                           *)
(***************************************************************************)
\* Powers of two: as many as a set of n elements has subsets.
LEMMA PowerOfTwo ==
  ASSUME NEW n \in Nat
  PROVE  2 ^ 0 = 1 /\ 2 ^ n \in Nat \ {0} /\ 2 ^ (n + 1) = 2 * 2 ^ n
<1> DEFINE A == SUBSET (1 .. n)
           B == {T \cup {n + 1} : T \in A}
           f == [T \in A |-> T \cup {n + 1}]
<1>1. \A m \in Nat : /\ IsFiniteSet(SUBSET (1 .. m)) /\ Cardinality(SUBSET (1 .. m)) = 2 ^ m
                     /\ 2 ^ m \in Nat
  <2> SUFFICES ASSUME NEW m \in Nat
               PROVE  /\ IsFiniteSet(SUBSET (1 .. m)) /\ Cardinality(SUBSET (1 .. m)) = 2 ^ m
                      /\ 2 ^ m \in Nat
    OBVIOUS
  <2>1. IsFiniteSet(1 .. m) /\ Cardinality(1 .. m) = m
    BY FS_Interval
  <2> QED
    BY <2>1, FS_SUBSET, FS_CardinalityType
<1>2. 2 ^ 0 = 1
  <2>1. SUBSET (1 .. 0) = {{}}
    <3>1. 1 .. 0 = {}
      OBVIOUS
    <3> QED
      BY <3>1
  <2> QED
    BY <1>1, <2>1, FS_Singleton
<1>3. 2 ^ n # 0
  <2>1. {} \in SUBSET (1 .. n)
    OBVIOUS
  <2> QED
    BY <1>1, <2>1, FS_EmptySet
<1>4. IsFiniteSet(A) /\ Cardinality(A) = 2 ^ n
  BY <1>1
<1>5. f \in Bijection(A, B)
  <2>1. ASSUME NEW s \in A, NEW t \in A, f[s] = f[t] PROVE s = t
    <3>1. n + 1 \notin s /\ n + 1 \notin t
      OBVIOUS
    <3>2. s \cup {n + 1} = t \cup {n + 1}
      BY <2>1
    <3> QED
      BY <3>1, <3>2
  <2>2. f \in [A -> B] /\ \A t \in B : \E s \in A : f[s] = t
    OBVIOUS
  <2> QED
    BY <2>1, <2>2 DEF Bijection, Injection, Surjection, IsInjective
<1>6. IsFiniteSet(B) /\ Cardinality(B) = 2 ^ n
  <2>1. ExistsBijection(A, B)
    BY <1>5 DEF ExistsBijection
  <2> QED
    BY <1>4, <2>1, FS_Bijection
<1>7. A \cap B = {}
  <2> SUFFICES ASSUME NEW T \in A PROVE T \notin B
    OBVIOUS
  <2>1. n + 1 \notin 1 .. n
    OBVIOUS
  <2> QED
    BY <2>1
<1>8. A \cup B = SUBSET (1 .. n + 1)
  <2>1. 1 .. n + 1 = (1 .. n) \cup {n + 1}
    OBVIOUS
  <2>2. ASSUME NEW T \in SUBSET (1 .. n + 1) PROVE T \in A \cup B
    <3>1. CASE n + 1 \in T
      <4>1. T \ {n + 1} \in A
        BY <2>1
      <4>2. T = (T \ {n + 1}) \cup {n + 1}
        BY <3>1
      <4> QED
        BY <4>1, <4>2
    <3>2. CASE n + 1 \notin T
      BY <2>1, <3>2
    <3> QED
      BY <3>1, <3>2
  <2>3. ASSUME NEW T \in A \cup B PROVE T \in SUBSET (1 .. n + 1)
    BY <2>1, <2>3
  <2> HIDE DEF A, B
  <2> QED
    BY <2>2, <2>3
<1>9. 2 ^ (n + 1) = 2 ^ n + 2 ^ n
  <2>1. Cardinality(A \cup B) = Cardinality(A) + Cardinality(B) - Cardinality(A \cap B)
    BY <1>4, <1>6, FS_Union
  <2>2. Cardinality(A \cap B) = 0
    BY <1>7, FS_EmptySet
  <2>3. Cardinality(SUBSET (1 .. n + 1)) = 2 ^ (n + 1)
    BY <1>1
  <2> HIDE DEF A, B
  <2>4. \A p \in Nat : p + p - 0 = p + p
    OBVIOUS
  <2> QED
    BY <1>1, <1>4, <1>6, <1>8, <2>1, <2>2, <2>3, <2>4, Zenon
<1> HIDE DEF A, B, f
<1>10. 2 ^ n \in Nat \ {0} /\ 2 ^ n + 2 ^ n = 2 * 2 ^ n
  <2>1. \A p \in Nat : p # 0 => p \in Nat \ {0} /\ p + p = 2 * p
    OBVIOUS
  <2> QED
    BY <1>1, <1>3, <2>1, Zenon
<1> QED
  BY <1>2, <1>9, <1>10

\* Division is unique.
LEMMA Quotient ==
  ASSUME NEW b \in Nat \ {0}, NEW q \in Nat, NEW r \in 0 .. b - 1
  PROVE  (b * q + r) \div b = q /\ (b * q + r) % b = r
<1> DEFINE s == (b * q + r) \div b
           t == (b * q + r) % b
<1>1. b * q + r \in Nat
  OBVIOUS
<1>2. s \in Int /\ t \in 0 .. b - 1 /\ b * q + r = b * s + t
  BY <1>1
<1> HIDE DEF s, t
<1>3. ~(q < s)
  <2> SUFFICES ASSUME q < s PROVE FALSE
    OBVIOUS
  <2>2. b * (q + 1) <= b * s
    BY <1>2
  <2>3. b * (q + 1) = b * q + b
    OBVIOUS
  <2> QED
    BY <1>2, <2>2, <2>3
<1>4. ~(s < q)
  <2> SUFFICES ASSUME s < q PROVE FALSE
    OBVIOUS
  <2>2. b * (s + 1) <= b * q
    BY <1>2
  <2>3. b * (s + 1) = b * s + b
    BY <1>2
  <2> QED
    BY <1>2, <2>2, <2>3
<1>5. q = s
  BY <1>2, <1>3, <1>4
<1> QED
  BY <1>2, <1>5 DEF s, t

\* The remainder by twice as much has one bit more.
LEMMA OneBitMore ==
  ASSUME NEW a \in Nat, NEW p \in Nat \ {0}
  PROVE  a % (2 * p) = (a % p) + ((a \div p) % 2) * p
<1> DEFINE q == a \div p
           r == a % p
           c == q % 2
<1>1. q \in Nat /\ r \in 0 .. p - 1 /\ a = p * q + r
  OBVIOUS
<1>2. PICK h \in Nat : q = 2 * h + c
  BY <1>1
<1>3. c \in {0, 1}
  BY <1>1
<1> HIDE DEF q, r, c
<1>4. a = (2 * p) * h + (p * c + r)
  <2>1. p * (2 * h + c) = (2 * p) * h + p * c
    BY <1>2, <1>3
  <2> QED
    BY <1>1, <1>2, <1>3, <2>1
<1>5. p * c + r \in 0 .. 2 * p - 1
  BY <1>1, <1>3
<1>6. a % (2 * p) = p * c + r
  <2>1. 2 * p \in Nat \ {0}
    OBVIOUS
  <2>2. ((2 * p) * h + (p * c + r)) % (2 * p) = p * c + r
    BY <1>2, <1>5, <2>1, Quotient, Zenon
  <2> QED
    BY <1>4, <2>2, Zenon
<1>7. p * c = c * p
  BY <1>3
<1> QED
  BY <1>1, <1>3, <1>6, <1>7 DEF q, r, c

LEMMA BitBelow ==
  ASSUME NEW p \in Nat \ {0}, NEW d \in Nat, NEW e \in Nat, d <= e
  PROVE  (((2 * p) * e - (2 * p) * d) \div p) % 2 = 0
<1>1. (2 * p) * e - (2 * p) * d = p * (2 * (e - d)) + 0
  OBVIOUS
<1>2. 2 * (e - d) \in Nat /\ 0 \in 0 .. p - 1
  OBVIOUS
<1>3. ((2 * p) * e - (2 * p) * d) \div p = 2 * (e - d)
  BY <1>1, <1>2, Quotient
<1> QED
  BY <1>3

LEMMA BitAbove ==
  ASSUME NEW p \in Nat \ {0}, NEW m \in 1 .. p, NEW e \in Nat \ {0}
  PROVE  (((2 * p) * e - m) \div p) % 2 = 1
<1>1. (2 * p) * e - m = p * (2 * e - 1) + (p - m)
  OBVIOUS
<1>2. 2 * e - 1 \in Nat /\ p - m \in 0 .. p - 1
  OBVIOUS
<1>3. ((2 * p) * e - m) \div p = 2 * e - 1
  BY <1>1, <1>2, Quotient
<1> QED
  BY <1>3

\* All bits shifted by some.
LEMMA ShiftedOnes ==
  ASSUME NEW n \in Nat \ {0}, NEW m \in 1 .. n
  PROVE  ((n - 1) * m) % n = n - m
<1>1. (n - 1) * m = n * (m - 1) + (n - m)
  OBVIOUS
<1>2. m - 1 \in Nat /\ n - m \in 0 .. n - 1
  OBVIOUS
<1> QED
  BY <1>1, <1>2, Quotient
-----------------------------------------------------------------------------
(***************************************************************************)
(* Lemmas about sequences.                                                 *)
(***************************************************************************)
\* A sequence is its first element and the rest.
LEMMA HeadAndTail ==
  ASSUME NEW S, NEW s \in Seq(S), NEW t \in Seq(S), s # <<>>, t # <<>>,
         Head(s) = Head(t), Tail(s) = Tail(t)
  PROVE  s = t
<1>1. Len(s) = Len(t) /\ Len(s) \in Nat \ {0}
  <2>1. Len(Tail(s)) = Len(s) - 1 /\ Len(Tail(t)) = Len(t) - 1
    BY HeadTailProperties
  <2>2. Len(s) \in Nat /\ Len(t) \in Nat
    BY LenProperties
  <2>3. Len(s) \in Nat \ {0}
    BY EmptySeq, Zenon
  <2>4. Len(s) - 1 = Len(t) - 1
    BY <2>1, Zenon
  <2> QED
    BY <2>2, <2>3, <2>4
<1>2. ASSUME NEW k \in 1 .. Len(s) PROVE s[k] = t[k]
  <2>1. CASE k = 1
    BY <2>1
  <2>2. CASE k # 1
    <3>1. k - 1 \in 1 .. Len(Tail(s)) /\ k - 1 \in 1 .. Len(Tail(t)) /\ (k - 1) + 1 = k
      BY <1>1, <2>2, HeadTailProperties
    <3>2. Tail(s)[k - 1] = s[k] /\ Tail(t)[k - 1] = t[k]
      BY <3>1, HeadTailProperties
    <3> QED
      BY <3>2
  <2> QED
    BY <2>1, <2>2
<1> QED
  BY <1>1, <1>2, SeqEqual

\* Nothing is left of a sequence but the last of two.
LEMMA TwoLong ==
  ASSUME NEW S, NEW s \in Seq(S), NEW a \in S, NEW c \in S, s # <<>>,
         Head(s) = a, Tail(s) = <<c>>
  PROVE  s = <<a, c>>
<1>1. <<a, c>> \in Seq(S) /\ <<a, c>> # <<>> /\ Head(<<a, c>>) = a /\ Tail(<<a, c>>) = <<c>>
  BY SMT
<1> QED
  BY <1>1, HeadAndTail

\* The way to a path, and the path.
LEMMA WayTypes ==
  ASSUME NEW path \in Seq(Components)
  PROVE  Way(path) \subseteq Seq(Components) /\ (path # <<>> => path \in Way(path))
<1>1. \A n \in 1 .. Len(path) : SubSeq(path, 1, n) \in Seq(Components)
  BY SMT
<1>2. path # <<>> => SubSeq(path, 1, Len(path)) = path /\ Len(path) \in 1 .. Len(path)
  BY SMT
<1> QED
  BY <1>1, <1>2, Zenon DEF Way

\* What is left of a path.
LEMMA RelativeTypes ==
  ASSUME NEW p \in Seq(Components)
  PROVE  Relative(p) \in Seq(Components)
BY SMT DEF Relative

\* Paths that begin with the prefix differ if what is left of them does not.
LEMMA StrippedApart ==
  ASSUME NEW p \in Seq(Components), NEW q \in Seq(Components),
         prefix # None /\ p # <<>> => Head(p) = prefix,
         prefix # None /\ q # <<>> => Head(q) = prefix,
         Relative(p) = Relative(q), Relative(p) # <<>>
  PROVE  p = q
<1>1. CASE prefix = None
  BY <1>1 DEF Relative
<1>2. CASE prefix # None
  <2>1. p # <<>> /\ q # <<>>
    BY <1>2 DEF Relative
  <2>2. Tail(p) = Tail(q) /\ Head(p) = Head(q)
    BY <1>2, <2>1 DEF Relative
  <2> QED
    BY <2>1, <2>2, HeadAndTail
<1> QED
  BY <1>1, <1>2

\* What is extracted is a sequence of entries, of none when it is handed on.
LEMMA ArchiveType ==
  ASSUME archive \in Archives \cup {<<>>}
  PROVE  archive \in Seq(Entries)
<1>1. <<>> \in Seq(Entries)
  OBVIOUS
<1> QED
  BY <1>1, ExtractionAssumption, Zenon

\* What an archive holds.
LEMMA EntryTypes ==
  ASSUME archive \in Archives \cup {<<>>}, NEW j \in DOMAIN archive
  PROVE  /\ archive[j] \in Entries
         /\ archive[j].path \in Seq(Components)
         /\ archive[j].size \in Nat
         /\ j \in Nat \ {0}
<1>1. archive \in Seq(Entries)
  BY ArchiveType
<1>2. archive[j] \in Entries /\ j \in Nat \ {0}
  BY <1>1, ElementOfSeq, LenProperties
<1> QED
  BY <1>2 DEF Entries

-----------------------------------------------------------------------------
(***************************************************************************)
(* The steps.                                                              *)
(***************************************************************************)
LEMMA Start ==
  ASSUME ExtractionInit
  PROVE  ExtractionInv
<1>1. DOMAIN out = {}
  BY DEF ExtractionInit
<1>2. ExtractionTypeOK
  <2>1. DOMAIN out \subseteq Seq(Components) /\ \A path \in DOMAIN out : out[path] \in Things
    BY <1>1
  <2>2. pos \in Nat /\ pos >= 1 /\ total \in Nat
    BY SMT DEF ExtractionInit
  <2>3. /\ phase \in {"open", "scan", "extract", "validate", "done", "failed", "handed"}
        /\ archive \in Archives \cup {<<>>}
        /\ prefix \in Components \cup {None} /\ nested \in BOOLEAN /\ ambiguous \in BOOLEAN
    BY Zenon DEF ExtractionInit
  <2> QED
    BY <2>1, <2>2, <2>3, Zenon DEF ExtractionTypeOK
<1>3. BudgetHolds
  BY ExtractionAssumption DEF BudgetHolds, ExtractionInit
<1> QED
  BY <1>2, <1>3 DEF ExtractionInit, ExtractionInv, ScanInv, StripInv, FilesInv, EndInv, ValidInv, NoneOverwritten

\* A failure, wherever it comes, leaves nothing.
LEMMA FailStep ==
  ASSUME ExtractionInv, Fail
  PROVE  ExtractionInv'
BY DEF Fail, ExtractionInv, ExtractionTypeOK, BudgetHolds, ScanInv, StripInv, FilesInv,
       EndInv, ValidInv, NoneOverwritten

LEMMA OpenStep ==
  ASSUME ExtractionInv, Open
  PROVE  ExtractionInv'
<1>1. pos = 1 /\ out = <<>> /\ total = 0
  BY DEF Open, ExtractionInv, ScanInv
<1>2. \A j \in DOMAIN archive : ~(j < 1)
  BY EntryTypes DEF ExtractionInv, ExtractionTypeOK
<1> QED
  BY <1>1, <1>2 DEF Open, ExtractionInv, ExtractionTypeOK, BudgetHolds, ScanInv, StripInv, FilesInv,
       EndInv, ValidInv, NoneOverwritten

LEMMA ScanEntryStep ==
  ASSUME ExtractionInv, ScanEntry
  PROVE  ExtractionInv'
<1> USE DEF ScanEntry
<1>0. ExtractionTypeOK /\ ScanInv
  BY DEF ExtractionInv
<1>1. /\ \A j \in DOMAIN archive : archive[j].path \in Seq(Components) /\ j \in Nat \ {0}
      /\ Entry.path \in Seq(Components)
  BY <1>0, EntryTypes DEF ExtractionTypeOK, Entry
<1>2. Entry.path # <<>> => Head(Entry.path) \in Components
  BY <1>1, HeadTailProperties
<1>3. ExtractionTypeOK'
  <2>1. nested' \in BOOLEAN /\ ambiguous' \in BOOLEAN /\ prefix' \in Components \cup {None}
    BY <1>0, <1>2 DEF Seen, ExtractionTypeOK
  <2> QED
    BY <1>0, <2>1 DEF ExtractionTypeOK
<1>4. ScanInv'
  <2>1. ASSUME ~ambiguous', NEW j \in DOMAIN archive, j < pos', archive[j].path # <<>>
        PROVE  prefix' # None /\ Head(archive[j].path) = prefix'
    <3>1. ~ambiguous
      BY <2>1 DEF Seen
    <3>2. CASE j < pos
      <4>1. prefix # None /\ Head(archive[j].path) = prefix
        BY <1>0, <2>1, <3>1, <3>2 DEF ScanInv
      <4> QED
        BY <4>1 DEF Seen
    <3>3. CASE j = pos
      <4>1. Entry.path # <<>> /\ Entry = archive[j]
        BY <2>1, <3>3 DEF Entry
      <4>2. prefix \in {None, Head(Entry.path)}
        BY <2>1, <3>1, <4>1 DEF Seen
      <4>3. Head(Entry.path) # None
        BY <1>2, <4>1, ExtractionAssumption
      <4> QED
        BY <3>1, <4>1, <4>2, <4>3 DEF Seen
    <3> QED
      BY <1>0, <1>1, <2>1, <3>2, <3>3 DEF ExtractionTypeOK
  <2>2. ASSUME NEW j \in DOMAIN archive, j < pos' PROVE archive[j].name # "refused"
    <3>1. CASE j < pos
      BY <1>0, <3>1 DEF ScanInv
    <3>2. CASE j = pos
      BY <3>2 DEF Refused, Entry
    <3> QED
      BY <1>0, <1>1, <2>2, <3>1, <3>2 DEF ExtractionTypeOK
  <2> QED
    BY <1>0, <2>1, <2>2 DEF ScanInv
<1> QED
  BY <1>0, <1>3, <1>4
    DEF ExtractionInv, BudgetHolds, StripInv, FilesInv, EndInv, ValidInv, NoneOverwritten

LEMMA ScanDoneStep ==
  ASSUME ExtractionInv, ScanDone
  PROVE  ExtractionInv'
<1> USE DEF ScanDone
<1>0. ExtractionTypeOK /\ ScanInv /\ out = <<>> /\ total = 0
  BY DEF ExtractionInv, ScanInv
<1>1. \A j \in DOMAIN archive : j \in Nat \ {0} /\ j < pos
  <2>1. archive \in Seq(Entries)
    BY <1>0, ArchiveType DEF ExtractionTypeOK
  <2>2. DOMAIN archive = 1 .. Len(archive) /\ Len(archive) \in Nat
    BY <2>1, LenProperties
  <2> QED
    BY <1>0, <2>2 DEF ExtractionTypeOK
<1>2. ExtractionTypeOK'
  BY <1>0 DEF ExtractionTypeOK, CommonPrefix
<1>3. StripInv'
  BY <1>0, <1>1 DEF ScanInv, StripInv, CommonPrefix
<1>4. FilesInv'
  BY <1>0 DEF FilesInv
<1>5. NoneOverwritten'
  BY <1>1 DEF NoneOverwritten, IsLast
<1> QED
  BY <1>0, <1>2, <1>3, <1>4, <1>5, ExtractionAssumption
    DEF ExtractionInv, BudgetHolds, ScanInv, EndInv, ValidInv

\* What each step of the extraction starts from.
LEMMA Extracts ==
  ASSUME ExtractionInv, Extracting
  PROVE  /\ ExtractionTypeOK /\ StripInv /\ FilesInv /\ NoneOverwritten
         /\ phase = "extract" /\ total <= MaxBytes /\ total \in Nat /\ MaxBytes \in Nat
         /\ pos \in DOMAIN archive /\ pos \in Nat \ {0}
         /\ Entry = archive[pos] /\ Entry.path \in Seq(Components) /\ Entry.size \in Nat
         /\ \A j \in DOMAIN archive :
              j \in Nat \ {0} /\ archive[j].path \in Seq(Components) /\ archive[j].size \in Nat
<1>1. ExtractionTypeOK /\ archive \in Archives \cup {<<>>}
  BY DEF ExtractionInv, ExtractionTypeOK
<1>2. \A j \in DOMAIN archive :
        j \in Nat \ {0} /\ archive[j].path \in Seq(Components) /\ archive[j].size \in Nat
  BY <1>1, EntryTypes
<1> QED
  BY <1>1, <1>2, ExtractionAssumption DEF ExtractionInv, ExtractionTypeOK, Extracting, Entry

\* A file that is the last of its path among the entries before the next is
\* the last among those before this, or is this.
LEMMA LastBefore ==
  ASSUME ExtractionInv, Extracting, NEW j \in DOMAIN archive, IsLast(j, pos + 1)
  PROVE  j = pos \/ (IsLast(j, pos) /\ (~Entry.dir => Entry.path # archive[j].path))
<1>1. j \in Nat /\ pos \in Nat /\ Entry = archive[pos] /\ pos \in DOMAIN archive
  BY Extracts
<1>2. \A k \in DOMAIN archive : k \in Nat
  BY Extracts
<1>3. CASE j < pos
  <2>1. pos < pos + 1
    BY <1>1
  <2>2. \A k \in DOMAIN archive : k < pos => k < pos + 1
    BY <1>1, <1>2
  <2> QED
    BY <1>1, <1>3, <2>1, <2>2 DEF IsLast
<1>4. CASE j = pos
  BY <1>4
<1> QED
  BY <1>1, <1>3, <1>4 DEF IsLast

LEMMA SkipEntryStep ==
  ASSUME ExtractionInv, SkipEntry
  PROVE  ExtractionInv'
<1> USE DEF SkipEntry, NextEntry
<1>0. Extracting
  OBVIOUS
<1>1. \A p : Relative(p)' = Relative(p)
  BY DEF Relative
<1>2. ExtractionTypeOK'
  BY <1>0, Extracts DEF ExtractionTypeOK
<1>3. FilesInv'
  <2>1. \A j \in DOMAIN archive : j < pos => j < pos + 1
    BY <1>0, Extracts
  <2> QED
    BY <1>0, <1>1, <2>1, Extracts DEF FilesInv
<1>4. NoneOverwritten'
  <2>1. ASSUME NEW j \in DOMAIN archive, IsLast(j, pos + 1), Relative(archive[j].path) # <<>>
        PROVE  /\ Relative(archive[j].path) \in DOMAIN out
               /\ out[Relative(archive[j].path)] = [of |-> j, bytes |-> archive[j].size]
    <3>1. IsLast(j, pos)
      BY <1>0, <2>1, LastBefore, Extracts
    <3> QED
      BY <1>0, <2>1, <3>1, Extracts DEF NoneOverwritten
  <2> QED
    BY <1>1, <2>1 DEF NoneOverwritten, IsLast
<1> QED
  BY <1>0, <1>2, <1>3, <1>4, Extracts
    DEF ExtractionInv, BudgetHolds, ScanInv, StripInv, EndInv, ValidInv

\* Directories do not replace what is there.
LEMMA WithFoldersKeeps ==
  ASSUME NEW S
  PROVE  /\ DOMAIN WithFolders(S) = DOMAIN out \cup S
         /\ \A p \in DOMAIN out : WithFolders(S)[p] = out[p]
         /\ \A p \in S \ DOMAIN out : WithFolders(S)[p] = Folder
BY DEF WithFolders

LEMMA ExtractFolderStep ==
  ASSUME ExtractionInv, ExtractFolder
  PROVE  ExtractionInv'
<1> DEFINE path == Relative(Entry.path)
<1> USE DEF ExtractFolder, NextEntry
<1>0. Extracting /\ out' = WithFolders(Way(path))
  OBVIOUS
<1>1. \A p : Relative(p)' = Relative(p)
  BY DEF Relative
<1>2. /\ DOMAIN out' = DOMAIN out \cup Way(path)
      /\ \A p \in DOMAIN out : out'[p] = out[p]
      /\ \A p \in DOMAIN out' : p \notin DOMAIN out => out'[p] = Folder
  <2> HIDE DEF ExtractFolder
  <2> HIDE DEF path
  <2>1. /\ DOMAIN WithFolders(Way(path)) = DOMAIN out \cup Way(path)
        /\ \A p \in DOMAIN out : WithFolders(Way(path))[p] = out[p]
        /\ \A p \in Way(path) \ DOMAIN out : WithFolders(Way(path))[p] = Folder
    BY WithFoldersKeeps
  <2>2. out' = WithFolders(Way(path))
    BY <1>0 DEF path
  <2> QED
    BY <2>1, <2>2, Zenon
<1>3. Way(path) \subseteq Seq(Components)
  BY <1>0, Extracts, RelativeTypes, WayTypes
<1>4. Folder \in Things /\ Folder.of = 0
  BY DEF Folder, Things
<1>5. ExtractionTypeOK'
  <2>1. DOMAIN out' \subseteq Seq(Components) /\ \A p \in DOMAIN out' : out'[p] \in Things
    BY <1>0, <1>2, <1>3, <1>4, Extracts DEF ExtractionTypeOK
  <2> QED
    BY <1>0, <2>1, Extracts DEF ExtractionTypeOK
<1>6. FilesInv'
  <2>1. \A j \in DOMAIN archive : j < pos => j < pos + 1
    BY <1>0, Extracts
  <2>2. ASSUME NEW p \in DOMAIN out', out'[p].of # 0
        PROVE  p \in DOMAIN out /\ out'[p] = out[p]
    BY <1>2, <1>4, <2>2
  <2>3. FilesInv /\ phase = "extract"
    BY <1>0, Extracts
  <2> QED
    BY <1>1, <2>1, <2>2, <2>3 DEF FilesInv
<1>7. NoneOverwritten'
  <2>1. ASSUME NEW j \in DOMAIN archive, IsLast(j, pos + 1), Relative(archive[j].path) # <<>>
        PROVE  /\ Relative(archive[j].path) \in DOMAIN out'
               /\ out'[Relative(archive[j].path)] = [of |-> j, bytes |-> archive[j].size]
    <3>1. IsLast(j, pos)
      <4>1. Entry = archive[pos] /\ Entry.dir
        BY <1>0, Extracts
      <4>2. ~archive[j].dir
        BY <2>1 DEF IsLast
      <4> QED
        BY <1>0, <2>1, <4>1, <4>2, LastBefore
    <3> QED
      BY <1>0, <1>2, <2>1, <3>1, Extracts DEF NoneOverwritten
  <2> QED
    BY <1>1, <2>1 DEF NoneOverwritten, IsLast
<1> QED
  BY <1>0, <1>5, <1>6, <1>7, Extracts
    DEF ExtractionInv, BudgetHolds, ScanInv, StripInv, EndInv, ValidInv

LEMMA ExtractFileStep ==
  ASSUME ExtractionInv, ExtractFile
  PROVE  ExtractionInv'
<1> DEFINE path == Relative(Entry.path)
           n    == Copied(Entry.size)
           up   == Way(path) \ {path}
<1>0. /\ Extracting /\ ~Entry.dir /\ Entry.name = "good" /\ path # <<>>
      /\ out' = [p \in DOMAIN out \cup Way(path) |->
                   IF p = path THEN [of |-> pos, bytes |-> n] ELSE WithFolders(up)[p]]
      /\ total' = total + n
      /\ pos' = pos + 1 /\ UNCHANGED <<archive, phase, prefix, nested, ambiguous>>
  BY DEF ExtractFile, NextEntry
<1>1. \A p : Relative(p)' = Relative(p)
  BY <1>0 DEF Relative
<1>2. path \in Seq(Components) /\ path \in Way(path) /\ Way(path) \subseteq Seq(Components)
  BY <1>0, Extracts, RelativeTypes, WayTypes
<1>3. n \in Nat /\ total' \in Nat /\ total' <= MaxBytes + 1 /\ (total' <= MaxBytes => n = Entry.size)
  <2>1. total \in Nat /\ MaxBytes \in Nat /\ total <= MaxBytes /\ Entry.size \in Nat
    BY <1>0, Extracts
  <2>2. n \in Nat /\ n <= MaxBytes - total + 1
    BY <2>1 DEF Copied
  <2>3. n # Entry.size => n = MaxBytes - total + 1
    BY <2>1 DEF Copied
  <2> HIDE DEF n
  <2> QED
    BY <1>0, <2>1, <2>2, <2>3
<1>4. /\ DOMAIN out' = DOMAIN out \cup Way(path)
      /\ out'[path] = [of |-> pos, bytes |-> n]
      /\ \A p \in DOMAIN out : p # path => out'[p] = out[p]
      /\ \A p \in DOMAIN out' : p \notin DOMAIN out /\ p # path => out'[p] = Folder
  <2>1. /\ \A p \in DOMAIN out : WithFolders(up)[p] = out[p]
        /\ \A p \in up \ DOMAIN out : WithFolders(up)[p] = Folder
    BY WithFoldersKeeps
  <2> HIDE DEF n, path
  <2>2. DOMAIN out' = DOMAIN out \cup Way(path)
    BY <1>0
  <2>3. \A p \in DOMAIN out \cup Way(path) :
          out'[p] = IF p = path THEN [of |-> pos, bytes |-> n] ELSE WithFolders(up)[p]
    BY <1>0
  <2> HIDE DEF up
  <2>4. \A p \in DOMAIN out \cup Way(path) : p \notin DOMAIN out /\ p # path => p \in up
    BY DEF up
  <2> QED
    BY <1>2, <2>1, <2>2, <2>3, <2>4, Zenon
<1>5. Folder \in Things /\ Folder.of = 0
  BY DEF Folder, Things
<1> HIDE DEF n, path, up
<1>6. ExtractionTypeOK'
  <2>1. [of |-> pos, bytes |-> n] \in Things
    BY <1>0, <1>3, Extracts DEF Things
  <2>2. \A p \in DOMAIN out : out[p] \in Things /\ p \in Seq(Components)
    BY <1>0, Extracts DEF ExtractionTypeOK
  <2>3. DOMAIN out' \subseteq Seq(Components) /\ \A p \in DOMAIN out' : out'[p] \in Things
    BY <1>2, <1>4, <1>5, <2>1, <2>2, Zenon
  <2>4. ExtractionTypeOK /\ pos \in Nat /\ pos' = pos + 1 /\ total' \in Nat
    BY <1>0, <1>3, Extracts
  <2>5. pos' \in Nat /\ pos' >= 1
    BY <2>4
  <2>6. UNCHANGED <<archive, phase, prefix, nested, ambiguous>>
    BY <1>0
  <2> QED
    BY <2>3, <2>4, <2>5, <2>6, Zenon DEF ExtractionTypeOK
<1>7. FilesInv'
  <2>1. FilesInv /\ phase = "extract" /\ total <= MaxBytes
    BY <1>0, Extracts
  <2>2. ASSUME NEW p \in DOMAIN out', out'[p].of # 0
        PROVE  /\ out'[p].of \in DOMAIN archive /\ out'[p].of < pos + 1
               /\ ~archive[out'[p].of].dir
               /\ archive[out'[p].of].path # <<>> /\ Relative(archive[out'[p].of].path) = p
               /\ total' <= MaxBytes => out'[p].bytes = archive[out'[p].of].size
    <3>1. CASE p = path
      <4>1. out'[p].of = pos /\ out'[p].bytes = n
        BY <1>4, <3>1
      <4>2. Entry = archive[pos] /\ pos \in DOMAIN archive /\ pos < pos + 1
        BY <1>0, Extracts
      <4>3. Entry.path # <<>> /\ Relative(Entry.path) = p
        BY <1>0, <3>1 DEF path, Relative
      <4> QED
        BY <1>0, <1>3, <4>1, <4>2, <4>3
    <3>2. CASE p # path
      <4>1. p \in DOMAIN out /\ out'[p] = out[p]
        BY <1>4, <1>5, <2>2, <3>2
      <4>2. /\ out[p].of \in DOMAIN archive /\ out[p].of < pos
            /\ ~archive[out[p].of].dir
            /\ archive[out[p].of].path # <<>> /\ Relative(archive[out[p].of].path) = p
            /\ out[p].bytes = archive[out[p].of].size
        BY <2>1, <2>2, <4>1 DEF FilesInv
      <4>3. out[p].of < pos + 1
        BY <1>0, <4>2, Extracts
      <4> QED
        BY <4>1, <4>2, <4>3
    <3> QED
      BY <3>1, <3>2
  <2> QED
    BY <1>0, <1>1, <2>2, Zenon DEF FilesInv
<1>8. NoneOverwritten'
  <2>1. ASSUME NEW j \in DOMAIN archive, IsLast(j, pos + 1), Relative(archive[j].path) # <<>>,
               total' <= MaxBytes
        PROVE  /\ Relative(archive[j].path) \in DOMAIN out'
               /\ out'[Relative(archive[j].path)] = [of |-> j, bytes |-> archive[j].size]
    <3>1. CASE j = pos
      <4>1. Relative(archive[j].path) = path
        BY <1>0, <3>1, Extracts DEF path
      <4>2. n = archive[j].size
        BY <1>0, <1>3, <2>1, <3>1, Extracts
      <4> QED
        BY <1>2, <1>4, <3>1, <4>1, <4>2
    <3>2. CASE j # pos
      <4>1. IsLast(j, pos) /\ Entry.path # archive[j].path
        BY <1>0, <2>1, <3>2, LastBefore
      <4>2. /\ Relative(archive[j].path) \in DOMAIN out
            /\ out[Relative(archive[j].path)] = [of |-> j, bytes |-> archive[j].size]
        BY <1>0, <2>1, <4>1, Extracts DEF NoneOverwritten
      <4>3. Relative(archive[j].path) # path
        <5>1. ASSUME Relative(archive[j].path) = path PROVE FALSE
          <6>1. /\ archive[j].path \in Seq(Components) /\ Entry.path \in Seq(Components)
                /\ Entry = archive[pos] /\ pos \in DOMAIN archive
            BY <1>0, Extracts
          <6>2. /\ prefix # None /\ archive[j].path # <<>> => Head(archive[j].path) = prefix
                /\ prefix # None /\ Entry.path # <<>> => Head(Entry.path) = prefix
            BY <1>0, <6>1, Extracts DEF StripInv
          <6>3. Relative(archive[j].path) = Relative(Entry.path)
            BY <5>1 DEF path
          <6> QED
            BY <2>1, <4>1, <6>1, <6>2, <6>3, StrippedApart
        <5> QED
          BY <5>1
      <4> QED
        BY <1>4, <4>2, <4>3
    <3> QED
      BY <3>1, <3>2
  <2> QED
    BY <1>0, <1>1, <2>1 DEF NoneOverwritten, IsLast
<1> QED
  BY <1>0, <1>3, <1>6, <1>7, <1>8, Extracts
    DEF ExtractionInv, BudgetHolds, ScanInv, StripInv, EndInv, ValidInv

LEMMA ExtractDoneStep ==
  ASSUME ExtractionInv, ExtractDone
  PROVE  ExtractionInv'
BY DEF ExtractDone, ExtractionInv, ExtractionTypeOK, BudgetHolds, ScanInv, StripInv, FilesInv,
       EndInv, ValidInv, NoneOverwritten, IsLast, Relative

LEMMA ValidateStep ==
  ASSUME ExtractionInv, Validate
  PROVE  ExtractionInv'
BY DEF Validate, ExtractionInv, ExtractionTypeOK, BudgetHolds, ScanInv, StripInv, FilesInv,
       EndInv, ValidInv, NoneOverwritten, IsLast, Relative, HasColumns, IsFile

\* A step that is not of the extraction.
LEMMA ExtractionQuiet ==
  ASSUME ExtractionInv, UNCHANGED extraction
  PROVE  ExtractionInv'
<1>1. ExtractionTypeOK' /\ BudgetHolds' /\ ScanInv' /\ EndInv'
  BY DEF extraction, ExtractionInv, ExtractionTypeOK, BudgetHolds, ScanInv, EndInv
<1>2. StripInv' /\ FilesInv' /\ ValidInv'
  BY DEF extraction, ExtractionInv, StripInv, FilesInv, ValidInv, Relative, HasColumns, IsFile
<1>3. NoneOverwritten'
  BY DEF extraction, ExtractionInv, NoneOverwritten, IsLast, Relative
<1> QED
  BY <1>1, <1>2, <1>3 DEF ExtractionInv

LEMMA ExtractionKeeps ==
  ASSUME ExtractionInv, ExtractionNext
  PROVE  ExtractionInv'
<1>1. CASE Open
  BY <1>1, OpenStep
<1>2. CASE Fails
  BY <1>2, FailStep DEF Fails
<1>3. CASE ScanEntry
  BY <1>3, ScanEntryStep
<1>4. CASE ScanRefuses
  BY <1>4, FailStep DEF ScanRefuses
<1>5. CASE ScanDone
  BY <1>5, ScanDoneStep
<1>6. CASE SkipEntry
  BY <1>6, SkipEntryStep
<1>7. CASE ExtractFolder
  BY <1>7, ExtractFolderStep
<1>8. CASE ExtractFile
  BY <1>8, ExtractFileStep
<1>9. CASE ExtractRefuses
  BY <1>9, FailStep DEF ExtractRefuses
<1>10. CASE ExtractDone
  BY <1>10, ExtractDoneStep
<1>11. CASE Validate
  BY <1>11, ValidateStep
<1>12. CASE Invalid
  BY <1>12, FailStep DEF Invalid
<1> QED
  BY <1>1, <1>2, <1>3, <1>4, <1>5, <1>6, <1>7, <1>8, <1>9, <1>10, <1>11, <1>12
    DEF ExtractionNext

-----------------------------------------------------------------------------
(***************************************************************************)
(* Networks.                                                               *)
(***************************************************************************)
\* A sum of bits, bit by bit.
LEMMA FromBitsSums ==
  ASSUME NEW b \in [0 .. Width - 1 -> {0, 1}]
  PROVE  \E low \in [0 .. Width -> Int] :
           /\ low[0] = 0
           /\ \A k \in 0 .. Width - 1 : low[k + 1] = low[k] + b[k] * 2 ^ k
           /\ FromBits(b) = low[Width]
<1> DEFINE IsLow(f) == f = [k \in 0 .. Width |-> IF k = 0 THEN 0 ELSE f[k - 1] + b[k - 1] * 2 ^ (k - 1)]
           low == CHOOSE f : IsLow(f)
           weight == [k \in Nat |-> IF k \in 0 .. Width - 1 THEN b[k] * 2 ^ k ELSE 0]
           step == [k \in Nat |-> [x \in Int |-> x + weight[k]]]
<1>1. Width \in Nat \ {0}
  BY CountriesAssumption
<1>2. weight \in [Nat -> Nat]
  <2>1. ASSUME NEW k \in Nat PROVE IF k \in 0 .. Width - 1 THEN b[k] * 2 ^ k \in Nat ELSE 0 \in Nat
    <3>1. 2 ^ k \in Nat
      BY PowerOfTwo
    <3>2. \A x \in {0, 1}, y \in Nat : x * y \in Nat
      OBVIOUS
    <3> QED
      BY <3>1, <3>2, Zenon
  <2> QED
    BY <2>1, Zenon
<1>3. \A k \in 0 .. Width - 1 : k \in Nat /\ weight[k] = b[k] * 2 ^ k
  <2>1. \A k \in 0 .. Width - 1 : k \in Nat
    BY <1>1
  <2> QED
    BY <2>1, Zenon
<1> HIDE DEF weight
<1>4. step \in [Nat -> [Int -> Int]]
  BY <1>2
<1>5. PICK g \in [0 .. Width -> Int] :
        Iterates(g, 0, step, Width)
  <2>1. 0 \in Int /\ Width \in Nat
    BY <1>1
  <2> HIDE DEF step
  <2> QED
    BY <1>4, <2>1, Recursion, Zenon
<1>6. ASSUME NEW k \in 0 .. Width - 1 PROVE g[k + 1] = g[k] + weight[k]
  <2>1. k \in Nat /\ g[k] \in Int
    BY <1>1
  <2>2. step[k][g[k]] = g[k] + weight[k]
    BY <2>1
  <2> QED
    BY <1>5, <2>2 DEF Iterates
<1>7. ASSUME NEW f
      PROVE  IsLow(f) <=> /\ f = [k \in 0 .. Width |-> f[k]]
                          /\ f[0] = 0 /\ \A k \in 0 .. Width - 1 : f[k + 1] = f[k] + weight[k]
  <2>1. \A k \in 1 .. Width : k - 1 \in 0 .. Width - 1 /\ (k - 1) + 1 = k /\ k # 0
    BY <1>1
  <2>2. \A k \in 1 .. Width : b[k - 1] * 2 ^ (k - 1) = weight[k - 1]
    BY <1>3, <2>1, Zenon
  <2>3. IsLow(f) <=> f = [k \in 0 .. Width |-> IF k = 0 THEN 0 ELSE f[k - 1] + weight[k - 1]]
    <3>1. \A k \in 0 .. Width : k # 0 => k \in 1 .. Width
      BY <1>1
    <3> QED
      BY <2>2, <3>1, Zenon
  <2> HIDE DEF IsLow
  <2>4. ASSUME f = [k \in 0 .. Width |-> IF k = 0 THEN 0 ELSE f[k - 1] + weight[k - 1]]
        PROVE  /\ f = [k \in 0 .. Width |-> f[k]]
               /\ f[0] = 0 /\ \A k \in 0 .. Width - 1 : f[k + 1] = f[k] + weight[k]
    <3>1. \A k \in 0 .. Width : f[k] = IF k = 0 THEN 0 ELSE f[k - 1] + weight[k - 1]
      BY <2>4
    <3>2. \A k \in 0 .. Width - 1 : k + 1 \in 0 .. Width /\ k + 1 # 0 /\ (k + 1) - 1 = k
      BY <1>1
    <3>3. \A k \in 0 .. Width - 1 : f[k + 1] = f[k] + weight[k]
      BY <3>1, <3>2
    <3>4. f = [k \in 0 .. Width |-> f[k]]
      BY <2>4
    <3>5. f[0] = 0
      BY <1>1, <3>1
    <3> QED
      BY <3>3, <3>4, <3>5, Zenon
  <2>5. ASSUME f = [k \in 0 .. Width |-> f[k]], f[0] = 0,
               \A k \in 0 .. Width - 1 : f[k + 1] = f[k] + weight[k]
        PROVE  f = [k \in 0 .. Width |-> IF k = 0 THEN 0 ELSE f[k - 1] + weight[k - 1]]
    <3>1. \A k \in 0 .. Width : f[k] = IF k = 0 THEN 0 ELSE f[k - 1] + weight[k - 1]
      <4>1. \A k \in 0 .. Width : k # 0 => k - 1 \in 0 .. Width - 1 /\ (k - 1) + 1 = k
        BY <1>1
      <4> QED
        BY <2>5, <4>1
    <3> QED
      BY <2>5, <3>1
  <2> QED
    BY <2>3, <2>4, <2>5
<1>8. IsLow(g)
  <2> HIDE DEF IsLow
  <2> QED
    BY <1>5, <1>6, <1>7 DEF Iterates
<1>9. IsLow(low)
  <2> HIDE DEF IsLow
  <2> QED
    BY <1>8, Zenon
<1>10. FromBits(b) = low[Width]
  BY Zenon DEF FromBits
<1> HIDE DEF IsLow, low
<1>11. \A k \in 0 .. Width : low[k] = g[k]
  <2> DEFINE S == {k \in Nat : k <= Width => low[k] = g[k]}
  <2>1. 0 \in S
    BY <1>1, <1>5, <1>7, <1>9 DEF Iterates
  <2>2. ASSUME NEW k \in Nat, k \in S PROVE k + 1 \in S
    <3> SUFFICES ASSUME k + 1 <= Width PROVE low[k + 1] = g[k + 1]
      OBVIOUS
    <3>1. low[k] = g[k] /\ k \in 0 .. Width - 1
      BY <1>1, <2>2
    <3> QED
      BY <1>6, <1>7, <1>9, <3>1
  <2> HIDE DEF S
  <2>3. Nat \subseteq S
    BY <2>1, <2>2, Induct
  <2> QED
    BY <1>1, <2>3 DEF S
<1>12. FromBits(b) = g[Width]
  BY <1>1, <1>10, <1>11
<1> QED
  BY <1>3, <1>5, <1>6, <1>12, Zenon DEF Iterates

\* Powers of two multiply.
LEMMA PowerSum ==
  ASSUME NEW m \in Nat, NEW n \in Nat
  PROVE  2 ^ (m + n) = 2 ^ m * 2 ^ n
<1> DEFINE S == {k \in Nat : 2 ^ (m + k) = 2 ^ m * 2 ^ k}
<1>1. \A k \in Nat : 2 ^ k \in Nat \ {0} /\ 2 ^ (k + 1) = 2 * 2 ^ k
  BY PowerOfTwo
<1>2. 0 \in S
  <2>1. m + 0 = m /\ 0 \in Nat /\ 2 ^ 0 = 1
    BY PowerOfTwo
  <2>2. \A x \in Nat : x * 1 = x
    OBVIOUS
  <2>3. 2 ^ (m + 0) = 2 ^ m * 2 ^ 0
    BY <1>1, <2>1, <2>2, Zenon
  <2> QED
    BY <2>3
<1>3. ASSUME NEW k \in Nat, k \in S PROVE k + 1 \in S
  <2>1. m + k \in Nat /\ m + (k + 1) = (m + k) + 1 /\ k + 1 \in Nat
    OBVIOUS
  <2>2. \A x, y \in Nat : 2 * (x * y) = x * (2 * y)
    OBVIOUS
  <2>3. 2 ^ (m + (k + 1)) = 2 ^ m * 2 ^ (k + 1)
    <3>1. 2 ^ (m + (k + 1)) = 2 * 2 ^ (m + k)
      BY <1>1, <2>1, Zenon
    <3>2. 2 ^ (m + k) = 2 ^ m * 2 ^ k
      BY <1>3
    <3>3. 2 ^ m \in Nat /\ 2 ^ k \in Nat
      BY <1>1
    <3>4. 2 ^ (k + 1) = 2 * 2 ^ k
      BY <1>1
    <3>5. 2 * (2 ^ m * 2 ^ k) = 2 ^ m * (2 * 2 ^ k)
      BY <2>2, <3>3, Zenon
    <3> QED
      BY <3>1, <3>2, <3>4, <3>5, Zenon
  <2> QED
    BY <2>1, <2>3
<1>4. n \in S
  <2> HIDE DEF S
  <2> QED
    BY <1>2, <1>3, Induct
<1> QED
  BY <1>4

\* A smaller power of two divides a greater one; below it, twice over.
LEMMA PowerDivides ==
  ASSUME NEW m \in Nat, NEW n \in Nat, m <= n
  PROVE  /\ 2 ^ m \in Nat \ {0} /\ 2 ^ n \in Nat \ {0}
         /\ \E d \in Nat \ {0} : 2 ^ n = 2 ^ m * d
         /\ m < n => \E d \in Nat \ {0} : 2 ^ n = (2 * 2 ^ m) * d
<1>1. \A k \in Nat : 2 ^ k \in Nat \ {0} /\ 2 ^ (k + 1) = 2 * 2 ^ k
  BY PowerOfTwo
<1>2. n - m \in Nat /\ m + (n - m) = n
  OBVIOUS
<1>3. 2 ^ n = 2 ^ m * 2 ^ (n - m)
  BY <1>2, PowerSum, Zenon
<1>4. ASSUME m < n PROVE \E d \in Nat \ {0} : 2 ^ n = (2 * 2 ^ m) * d
  <2>1. m + 1 \in Nat /\ n - (m + 1) \in Nat /\ (m + 1) + (n - (m + 1)) = n
    BY <1>4
  <2>2. 2 ^ n = 2 ^ (m + 1) * 2 ^ (n - (m + 1))
    BY <2>1, PowerSum, Zenon
  <2> QED
    BY <1>1, <2>1, <2>2, Zenon
<1> QED
  BY <1>1, <1>2, <1>3, <1>4, Zenon

LEMMA BitType ==
  ASSUME NEW a \in Nat, NEW i \in Nat
  PROVE  Bit(a, i) \in {0, 1}
<1>1. 2 ^ i \in Nat \ {0}
  BY PowerOfTwo
<1>2. \A p \in Nat \ {0} : (a \div p) % 2 \in {0, 1}
  OBVIOUS
<1> QED
  BY <1>1, <1>2, Zenon DEF Bit

LEMMA BitMore ==
  ASSUME NEW a \in Nat, NEW i \in Nat
  PROVE  a % 2 ^ (i + 1) = (a % 2 ^ i) + Bit(a, i) * 2 ^ i
<1>1. 2 ^ i \in Nat \ {0} /\ 2 ^ (i + 1) = 2 * 2 ^ i
  BY PowerOfTwo
<1> QED
  BY <1>1, OneBitMore, Zenon DEF Bit

\* The bits of some numbers: of all below h, of all from h on, and of a number
\* whose bits below h are dropped.
LEMMA BitsOf ==
  ASSUME NEW h \in 0 .. Width, NEW i \in 0 .. Width - 1, NEW a \in Nat
  PROVE  /\ Bit(2 ^ h - 1, i) = IF i < h THEN 1 ELSE 0
         /\ Bit(2 ^ Width - 2 ^ h, i) = IF i < h THEN 0 ELSE 1
         /\ Bit(a - (a % 2 ^ h), i) = IF i < h THEN 0 ELSE Bit(a, i)
         /\ Bit((a - (a % 2 ^ h)) + (2 ^ h - 1), i) = IF i < h THEN 1 ELSE Bit(a, i)
<1> DEFINE p == 2 ^ i
           m == 2 ^ h
           n == 2 ^ Width
<1>1. Width \in Nat \ {0} /\ h \in Nat /\ i \in Nat /\ i < Width /\ h <= Width /\ i <= Width
  BY CountriesAssumption
<1>2. p \in Nat \ {0} /\ m \in Nat \ {0}
  BY <1>1, PowerOfTwo
<1>3. PICK e \in Nat \ {0} : n = (2 * p) * e
  BY <1>1, PowerDivides, Zenon
<1>4. CASE i < h
  <2>1. PICK d \in Nat \ {0} : m = (2 * p) * d
    <3>1. i <= h
      BY <1>1, <1>4
    <3> QED
      BY <1>1, <1>4, <3>1, PowerDivides, Zenon
  <2>2. PICK c \in Nat \ {0} : n = m * c
    BY <1>1, PowerDivides, Zenon
  <2> HIDE DEF p, m, n
  <2>3. ((m - 1) \div p) % 2 = 1
    BY <1>2, <2>1, BitAbove
  <2>4. ((n - m) \div p) % 2 = 0
    <3>1. d <= e
      <4>1. m <= n
        BY <1>2, <2>2
      <4>2. ASSUME e < d PROVE FALSE
        <5>1. (2 * p) * (e + 1) <= (2 * p) * d
          BY <1>2, <4>2
        <5>2. (2 * p) * (e + 1) = (2 * p) * e + 2 * p
          BY <1>2
        <5> QED
          BY <1>2, <1>3, <2>1, <4>1, <5>1, <5>2
      <4> QED
        BY <4>2
    <3> QED
      BY <1>2, <1>3, <2>1, <3>1, BitBelow
  <2>6. (((a - (a % m)) + (m - 1)) \div p) % 2 = 1
    <3>1. PICK q \in Nat : a - (a % m) = m * q
      <4>1. a - (a % m) = m * (a \div m) /\ a \div m \in Nat
        BY <1>2
      <4> QED
        BY <4>1
    <3>2. m * q = (2 * p) * (d * q) /\ d * q \in Nat
      BY <1>2, <2>1
    <3>3. (2 * p) * (d * q + d) = (2 * p) * (d * q) + (2 * p) * d
      BY <1>2, <3>2
    <3>4. m * q + (m - 1) = (2 * p) * (d * q + d) - 1
      BY <1>2, <2>1, <3>2, <3>3
    <3>5. 1 \in 1 .. p /\ d * q + d \in Nat \ {0}
      BY <1>2, <3>2
    <3> QED
      BY <1>2, <3>1, <3>4, <3>5, BitAbove
  <2>5. ((a - (a % m)) \div p) % 2 = 0
    <3>1. PICK q \in Nat : a - (a % m) = m * q
      <4>1. a - (a % m) = m * (a \div m) /\ a \div m \in Nat
        BY <1>2
      <4> QED
        BY <4>1
    <3>2. m * q = (2 * p) * (d * q) - (2 * p) * 0 /\ d * q \in Nat /\ 0 <= d * q
      BY <1>2, <2>1
    <3>3. (((2 * p) * (d * q) - (2 * p) * 0) \div p) % 2 = 0
      BY <1>2, <3>2, BitBelow
    <3> QED
      BY <3>1, <3>2, <3>3
  <2> QED
    BY <1>4, <2>3, <2>4, <2>5, <2>6 DEF Bit, p, m, n
<1>5. CASE ~(i < h)
  <2>1. PICK d \in Nat \ {0} : p = m * d
    <3>1. h <= i
      BY <1>1, <1>5
    <3> QED
      BY <1>1, <3>1, PowerDivides, Zenon
  <2> HIDE DEF p, m, n
  <2>2. m <= p
    BY <1>2, <2>1
  <2>3. ((m - 1) \div p) % 2 = 0
    <3>1. (p * 0 + (m - 1)) \div p = 0
      BY <1>2, <2>2, Quotient
    <3>2. p * 0 + (m - 1) = m - 1
      BY <1>2
    <3> QED
      BY <3>1, <3>2
  <2>4. ((n - m) \div p) % 2 = 1
    <3>1. m \in 1 .. p
      BY <1>2, <2>2
    <3> QED
      BY <1>2, <1>3, <3>1, BitAbove
  <2>5. (a - (a % m)) \div p = a \div p /\ ((a - (a % m)) + (m - 1)) \div p = a \div p
    <3>1. PICK q \in Nat, r \in 0 .. m - 1 : a = m * q + r /\ r = a % m
      BY <1>2
    <3>2. PICK s \in Nat, t \in 0 .. d - 1 : q = d * s + t
      <4>1. q = d * (q \div d) + (q % d) /\ q \div d \in Nat /\ q % d \in 0 .. d - 1
        OBVIOUS
      <4> QED
        BY <4>1
    <3>3. m * q = p * s + m * t
      <4>1. m * (d * s + t) = (m * d) * s + m * t
        BY <1>2
      <4> QED
        BY <2>1, <3>2, <4>1
    <3>4. m * t \in 0 .. p - 1 /\ m * t + r \in 0 .. p - 1 /\ m * t + (m - 1) \in 0 .. p - 1
      <4>1. m * t <= m * (d - 1)
        BY <1>2
      <4>2. m * (d - 1) = p - m
        BY <1>2, <2>1
      <4>3. m * t \in Nat
        BY <1>2
      <4> QED
        BY <1>2, <4>1, <4>2, <4>3
    <3>5. (m * q) \div p = s
      BY <1>2, <3>3, <3>4, Quotient
    <3>6. (p * s + (m * t + r)) \div p = s
      BY <1>2, <3>4, Quotient
    <3>7. a = p * s + (m * t + r)
      BY <1>2, <3>1, <3>3
    <3>8. a - (a % m) = m * q
      BY <1>2, <3>1
    <3>9. (p * s + (m * t + (m - 1))) \div p = s
      BY <1>2, <3>4, Quotient
    <3>10. m * q + (m - 1) = p * s + (m * t + (m - 1))
      BY <1>2, <3>3
    <3> QED
      BY <3>5, <3>6, <3>7, <3>8, <3>9, <3>10
  <2> QED
    BY <1>5, <2>3, <2>4, <2>5 DEF Bit, p, m, n
<1> QED
  BY <1>4, <1>5

\* A number is what its bits make.
LEMMA BitsMake ==
  ASSUME NEW x \in 0 .. LastAddress, NEW b \in [0 .. Width - 1 -> {0, 1}],
         \A i \in 0 .. Width - 1 : b[i] = Bit(x, i)
  PROVE  FromBits(b) = x
<1>1. Width \in Nat \ {0} /\ x \in Nat
  <2>1. 2 ^ Width \in Nat
    BY CountriesAssumption, PowerOfTwo
  <2> QED
    BY <2>1, CountriesAssumption DEF LastAddress
<1>2. PICK low \in [0 .. Width -> Int] :
        /\ low[0] = 0
        /\ \A k \in 0 .. Width - 1 : low[k + 1] = low[k] + b[k] * 2 ^ k
        /\ FromBits(b) = low[Width]
  BY FromBitsSums, Zenon
<1> DEFINE S == {k \in Nat : k <= Width => low[k] = x % 2 ^ k}
<1>3. 0 \in S
  <2>1. x % 1 = 0
    BY <1>1
  <2>2. 2 ^ 0 = 1
    BY PowerOfTwo, <1>1
  <2> QED
    BY <1>2, <2>1, <2>2
<1>4. ASSUME NEW k \in Nat, k \in S PROVE k + 1 \in S
  <2> SUFFICES ASSUME k + 1 <= Width PROVE low[k + 1] = x % 2 ^ (k + 1)
    OBVIOUS
  <2>1. k \in 0 .. Width - 1 /\ low[k] = x % 2 ^ k
    BY <1>1, <1>4
  <2>2. low[k + 1] = (x % 2 ^ k) + Bit(x, k) * 2 ^ k
    BY <1>2, <2>1, Zenon
  <2> QED
    BY <1>1, <2>2, BitMore, Zenon
<1>5. Width \in S
  <2> HIDE DEF S
  <2>1. Nat \subseteq S
    BY <1>3, <1>4, Induct
  <2> QED
    BY <1>1, <2>1
<1>6. low[Width] = x % 2 ^ Width
  BY <1>1, <1>5
<1>7. x % 2 ^ Width = x
  <2>1. 2 ^ Width \in Nat \ {0}
    BY <1>1, PowerOfTwo
  <2>2. \A n \in Nat \ {0} : \A y \in 0 .. n - 1 : y % n = y
    OBVIOUS
  <2> QED
    BY <2>1, <2>2, Zenon DEF LastAddress
<1> QED
  BY <1>2, <1>6, <1>7

\* The mask of a prefix, for no bits too.
LEMMA MaskIs ==
  ASSUME NEW p \in 0 .. Width
  PROVE  Mask(p) = 2 ^ Width - 2 ^ (Width - p)
<1>1. Width \in Nat \ {0} /\ p \in Nat /\ Width - p \in 0 .. Width /\ Width - p \in Nat /\ p <= Width
  BY CountriesAssumption
<1>2. 2 ^ Width \in Nat \ {0} /\ 2 ^ (Width - p) \in Nat \ {0}
  BY <1>1, PowerOfTwo
<1>3. CASE p = 0
  <2>1. Width - p = Width
    BY <1>1, <1>3
  <2>2. \A n \in Nat : n - n = 0
    OBVIOUS
  <2>3. 2 ^ Width - 2 ^ (Width - p) = 0
    BY <1>2, <2>1, <2>2, Zenon
  <2> QED
    BY <1>3, <2>3 DEF Mask
<1>4. CASE p # 0
  <2>1. Width - p <= Width
    BY <1>1
  <2>2. PICK d \in Nat \ {0} : 2 ^ Width = 2 ^ (Width - p) * d
    BY <1>1, <2>1, PowerDivides, Zenon
  <2>3. \A n, m, e \in Nat \ {0} : n = m * e => m \in 1 .. n
    <3> SUFFICES ASSUME NEW m \in Nat \ {0}, NEW e \in Nat \ {0} PROVE m \in 1 .. m * e
      OBVIOUS
    <3>1. m * 1 <= m * e
      OBVIOUS
    <3> QED
      BY <3>1
  <2>4. 2 ^ (Width - p) \in 1 .. 2 ^ Width
    BY <1>2, <2>2, <2>3, Zenon
  <2>5. ((2 ^ Width - 1) * 2 ^ (Width - p)) % 2 ^ Width = 2 ^ Width - 2 ^ (Width - p)
    BY <1>2, <2>4, ShiftedOnes, Zenon
  <2> QED
    BY <1>4, <2>5, Zenon DEF Mask, Shifted, LastAddress
<1> QED
  BY <1>3, <1>4

\* The ends of a network are addresses.
LEMMA CidrWithin ==
  ASSUME NEW a \in 0 .. LastAddress, NEW p \in 0 .. Width
  PROVE  LET m == 2 ^ (Width - p) IN
           /\ a - (a % m) \in 0 .. LastAddress
           /\ (a - (a % m)) + (m - 1) \in 0 .. LastAddress
           /\ m - 1 \in 0 .. LastAddress
<1> DEFINE h == Width - p
           m == 2 ^ h
           n == 2 ^ Width
           f == a - (a % m)
           l == (a - (a % m)) + (m - 1)
<1>1. Width \in Nat \ {0} /\ h \in 0 .. Width /\ h \in Nat /\ h <= Width
  BY CountriesAssumption
<1>2. m \in Nat \ {0} /\ n \in Nat \ {0}
  BY <1>1, PowerOfTwo
<1>3. LastAddress = n - 1 /\ a \in Nat /\ a \in 0 .. n - 1
  <2>1. LastAddress = n - 1
    BY DEF LastAddress
  <2> HIDE DEF n
  <2> QED
    BY <1>2, <2>1
<1>4. PICK d \in Nat \ {0} : n = m * d
  BY <1>1, PowerDivides, Zenon
<1> HIDE DEF m, n
<1>5. PICK q \in Nat, r \in 0 .. m - 1 : a = m * q + r /\ r = a % m
  <2>1. a = m * (a \div m) + (a % m) /\ a \div m \in Nat /\ a % m \in 0 .. m - 1
    BY <1>2, <1>3
  <2> QED
    BY <2>1
<1>6. q < d
  <2> SUFFICES ASSUME d <= q PROVE FALSE
    BY <1>5
  <2>1. m * d <= m * q
    BY <1>2
  <2> QED
    BY <1>2, <1>3, <1>4, <1>5, <2>1
<1>7. m * (q + 1) <= m * d /\ m * (q + 1) = m * q + m /\ m * q \in Nat
  BY <1>2, <1>6
<1>8. f = m * q /\ l = m * q + (m - 1)
  BY <1>2, <1>5, <1>7
<1> HIDE DEF f, l
<1>9. f \in 0 .. LastAddress /\ l \in 0 .. LastAddress /\ m - 1 \in 0 .. LastAddress
  BY <1>2, <1>3, <1>4, <1>7, <1>8
<1> QED
  BY <1>9, Zenon DEF f, l, m, h

\* A network: the address without the bits below the prefix, and up to all of
\* them.
LEMMA CidrIs ==
  ASSUME NEW a \in 0 .. LastAddress, NEW p \in 0 .. Width
  PROVE  LET m == 2 ^ (Width - p) IN
           Cidr(a, p) = <<a - (a % m), (a - (a % m)) + (m - 1)>>
<1> DEFINE h == Width - p
           m == 2 ^ h
           n == 2 ^ Width
<1>1. /\ Width \in Nat \ {0} /\ h \in 0 .. Width /\ h \in Nat /\ h <= Width
      /\ \A i \in 0 .. Width - 1 : i \in Nat
  BY CountriesAssumption
<1>2. m \in Nat \ {0} /\ n \in Nat \ {0}
  BY <1>1, PowerOfTwo
<1>3. LastAddress = n - 1 /\ a \in Nat /\ a \in 0 .. n - 1
  <2>1. LastAddress = n - 1
    BY DEF LastAddress
  <2> HIDE DEF n
  <2> QED
    BY <1>2, <2>1
<1>5. Mask(p) = n - m
  BY MaskIs
<1> DEFINE f == a - (a % m)
           l == (a - (a % m)) + (m - 1)
<1>6. ASSUME NEW i \in 0 .. Width - 1
      PROVE  /\ Bit(n - m, i) = IF i < h THEN 0 ELSE 1
             /\ Bit(m - 1, i) = IF i < h THEN 1 ELSE 0
             /\ Bit(f, i) = IF i < h THEN 0 ELSE Bit(a, i)
             /\ Bit(l, i) = IF i < h THEN 1 ELSE Bit(a, i)
             /\ Bit(a, i) \in {0, 1}
  <2>1. i \in Nat
    BY <1>1
  <2>2. Bit(a, i) \in {0, 1}
    BY <1>3, <2>1, BitType
  <2> QED
    BY <1>1, <1>3, <2>2, BitsOf, Zenon
<1>7. f \in 0 .. LastAddress /\ l \in 0 .. LastAddress /\ m - 1 \in 0 .. LastAddress
  BY CidrWithin
<1> HIDE DEF m, n, f, l, h
<1>8. And(a, n - m) = f
  <2> DEFINE b == [i \in 0 .. Width - 1 |-> IF Bit(a, i) = 1 /\ Bit(n - m, i) = 1 THEN 1 ELSE 0]
  <2>1. b \in [0 .. Width - 1 -> {0, 1}]
    OBVIOUS
  <2>2. ASSUME NEW i \in 0 .. Width - 1 PROVE b[i] = Bit(f, i)
    BY <1>6
  <2> HIDE DEF b
  <2>3. FromBits(b) = f
    BY <1>7, <2>1, <2>2, BitsMake
  <2> QED
    BY <2>3 DEF And, b
<1>9. Not(n - m) = m - 1
  <2> DEFINE b == [i \in 0 .. Width - 1 |-> 1 - Bit(n - m, i)]
  <2>1. ASSUME NEW i \in 0 .. Width - 1 PROVE b[i] = Bit(m - 1, i) /\ b[i] \in {0, 1}
    BY <1>6
  <2>2. b \in [0 .. Width - 1 -> {0, 1}]
    BY <2>1
  <2> HIDE DEF b
  <2>3. FromBits(b) = m - 1
    BY <1>7, <2>1, <2>2, BitsMake
  <2> QED
    BY <2>3 DEF Not, b
<1>10. Or(f, m - 1) = l
  <2> DEFINE b == [i \in 0 .. Width - 1 |-> IF Bit(f, i) = 1 \/ Bit(m - 1, i) = 1 THEN 1 ELSE 0]
  <2>1. b \in [0 .. Width - 1 -> {0, 1}]
    OBVIOUS
  <2>2. ASSUME NEW i \in 0 .. Width - 1 PROVE b[i] = Bit(l, i)
    <3>1. CASE i < h
      BY <1>6, <3>1
    <3>2. CASE ~(i < h)
      BY <1>6, <3>2
    <3> QED
      BY <3>1, <3>2
  <2> HIDE DEF b
  <2>3. FromBits(b) = l
    BY <1>7, <2>1, <2>2, BitsMake
  <2> QED
    BY <2>3 DEF Or, b
<1>11. Cidr(a, p) = <<f, l>>
  BY <1>5, <1>8, <1>9, <1>10, Zenon DEF Cidr
<1> QED
  BY <1>11 DEF f, l, m, h

\* Numbers with one quotient are those from one multiple to the next.
LEMMA SameQuotient ==
  ASSUME NEW m \in Nat \ {0}, NEW a \in Nat, NEW x \in Nat
  PROVE  x \div m = a \div m <=> x \in a - (a % m) .. (a - (a % m)) + (m - 1)
<1>1. PICK q \in Nat, r \in 0 .. m - 1 : a = m * q + r /\ q = a \div m /\ r = a % m
  <2>1. a = m * (a \div m) + (a % m) /\ a \div m \in Nat /\ a % m \in 0 .. m - 1
    OBVIOUS
  <2> QED
    BY <2>1
<1>2. a - (a % m) = m * q /\ m * q \in Nat
  BY <1>1
<1>3. ASSUME x \div m = q PROVE x \in m * q .. m * q + (m - 1)
  <2>1. x = m * (x \div m) + (x % m) /\ x % m \in 0 .. m - 1
    OBVIOUS
  <2> QED
    BY <1>2, <1>3, <2>1
<1>4. ASSUME x \in m * q .. m * q + (m - 1) PROVE x \div m = q
  <2>1. x - m * q \in 0 .. m - 1 /\ x = m * q + (x - m * q)
    BY <1>2, <1>4
  <2> QED
    BY <2>1, Quotient
<1> QED
  BY <1>1, <1>2, <1>3, <1>4

\* A network has the addresses whose first bits are those of its own
\* (cidr_v4_bytes, cidr_v6_bytes).
LEMMA CidrCovers ==
  ASSUME NEW a \in 0 .. LastAddress, NEW p \in 0 .. Width
  PROVE  /\ Cidr(a, p) \in Seq(0 .. LastAddress)
         /\ Cidr(a, p)[1] .. Cidr(a, p)[2] =
              {x \in 0 .. LastAddress : x \div 2 ^ (Width - p) = a \div 2 ^ (Width - p)}
<1> DEFINE m == 2 ^ (Width - p)
           f == a - (a % m)
           l == (a - (a % m)) + (m - 1)
<1>1. m \in Nat \ {0} /\ a \in Nat /\ LastAddress \in Nat
  <2>1. Width \in Nat /\ Width - p \in Nat
    BY CountriesAssumption
  <2>2. m \in Nat \ {0} /\ 2 ^ Width \in Nat \ {0}
    BY <2>1, PowerOfTwo
  <2>3. \A y \in Nat \ {0} : y - 1 \in Nat
    OBVIOUS
  <2>4. LastAddress \in Nat
    BY <2>2, <2>3, Zenon DEF LastAddress
  <2> QED
    BY <2>2, <2>4
<1>2. Cidr(a, p) = <<f, l>>
  BY CidrIs
<1>3. f \in 0 .. LastAddress /\ l \in 0 .. LastAddress
  BY CidrWithin
<1> HIDE DEF m
<1>4. \A x \in Nat : x \div m = a \div m <=> x \in f .. l
  BY <1>1, SameQuotient
<1>5. f .. l = {x \in 0 .. LastAddress : x \div m = a \div m}
  <2> HIDE DEF f, l
  <2>1. \A x \in f .. l : x \in Nat /\ x \in 0 .. LastAddress
    BY <1>1, <1>3
  <2>2. \A x \in 0 .. LastAddress : x \in Nat
    BY <1>1
  <2> QED
    BY <1>4, <2>1, <2>2, Zenon
<1>6. <<f, l>> \in Seq(0 .. LastAddress) /\ <<f, l>>[1] = f /\ <<f, l>>[2] = l
  <2> HIDE DEF f, l
  <2> QED
    BY <1>3
<1> QED
  BY <1>2, <1>5, <1>6 DEF m

-----------------------------------------------------------------------------
(***************************************************************************)
(* Geonames.                                                               *)
(***************************************************************************)
\* Adding a digit, or having no number.
LEMMA AddType ==
  ASSUME NEW v \in Int, NEW c \in Int, NEW limit \in Nat
  PROVE  Add(v, c, limit) \in Int
BY CountriesAssumption DEF Add, NoNumber

\* A number is read digit by digit.
LEMMA NumberReads ==
  ASSUME NEW b \in Seq(Int), NEW limit \in Nat
  PROVE  \E value \in [0 .. Len(b) -> Int] :
           /\ value[0] = 0
           /\ \A k \in 0 .. Len(b) - 1 : value[k + 1] = Add(value[k], b[k + 1], limit)
           /\ Number(b, limit) = value[Len(b)]
<1> DEFINE n == Len(b)
           IsValue(f) == f = [k \in 0 .. n |-> IF k = 0 THEN 0 ELSE Add(f[k - 1], b[k], limit)]
           value == CHOOSE f : IsValue(f)
           digit == [k \in Nat |-> IF k \in 0 .. n - 1 THEN b[k + 1] ELSE 0]
           step == [k \in Nat |-> [x \in Int |-> Add(x, digit[k], limit)]]
<1>1. n \in Nat /\ \A k \in 1 .. n : b[k] \in Int
  BY LenProperties, ElementOfSeq
<1> HIDE DEF n
<1>2. digit \in [Nat -> Int] /\ \A k \in 0 .. n - 1 : k \in Nat /\ digit[k] = b[k + 1]
  BY <1>1
<1> HIDE DEF digit
<1>3. step \in [Nat -> [Int -> Int]]
  BY <1>2, AddType
<1>4. \A k \in Nat, x \in Int : step[k][x] = Add(x, digit[k], limit)
  OBVIOUS
<1> HIDE DEF step
<1>5. PICK g \in [0 .. n -> Int] : Iterates(g, 0, step, n)
  <2>1. 0 \in Int
    OBVIOUS
  <2> QED
    BY <1>1, <1>3, <2>1, Recursion, Zenon
<1>6. g[0] = 0 /\ \A k \in 0 .. n - 1 : g[k + 1] = Add(g[k], b[k + 1], limit)
  <2> SUFFICES ASSUME NEW k \in 0 .. n - 1 PROVE g[k + 1] = Add(g[k], b[k + 1], limit)
    BY <1>5 DEF Iterates
  <2>1. k \in Nat /\ g[k] \in Int /\ digit[k] = b[k + 1]
    BY <1>1, <1>2
  <2>2. step[k][g[k]] = Add(g[k], b[k + 1], limit)
    BY <1>4, <2>1
  <2> QED
    BY <1>5, <2>2 DEF Iterates
<1>7. IsValue(g)
  <2>1. ASSUME NEW k \in 0 .. n PROVE g[k] = IF k = 0 THEN 0 ELSE Add(g[k - 1], b[k], limit)
    <3>1. CASE k = 0
      BY <1>6, <3>1
    <3>2. CASE k # 0
      <4>1. k - 1 \in 0 .. n - 1 /\ (k - 1) + 1 = k
        BY <1>1, <3>2
      <4>2. g[(k - 1) + 1] = Add(g[k - 1], b[(k - 1) + 1], limit)
        BY <1>6, <4>1, Zenon
      <4> QED
        BY <3>2, <4>1, <4>2
    <3> QED
      BY <3>1, <3>2
  <2>2. g = [k \in 0 .. n |-> g[k]]
    OBVIOUS
  <2> QED
    BY <2>1, <2>2
<1>8. IsValue(value)
  <2> HIDE DEF IsValue
  <2> QED
    BY <1>7, Zenon
<1>9. Number(b, limit) = value[n]
  BY Zenon DEF Number, n
<1>10. value[0] = 0 /\ \A k \in 0 .. n - 1 : value[k + 1] = Add(value[k], b[k + 1], limit)
  <2>1. \A k \in 0 .. n : value[k] = IF k = 0 THEN 0 ELSE Add(value[k - 1], b[k], limit)
    <3> HIDE DEF value
    <3> QED
      BY <1>8
  <2>2. \A k \in 0 .. n - 1 : k + 1 \in 0 .. n /\ k + 1 # 0 /\ (k + 1) - 1 = k
    BY <1>1
  <2>3. 0 \in 0 .. n
    BY <1>1
  <2> HIDE DEF value, IsValue
  <2>4. value[0] = 0
    BY <2>1, <2>3, Zenon
  <2>5. ASSUME NEW k \in 0 .. n - 1 PROVE value[k + 1] = Add(value[k], b[k + 1], limit)
    <3>1. value[k + 1] = Add(value[(k + 1) - 1], b[k + 1], limit)
      BY <2>1, <2>2, Zenon
    <3> QED
      BY <2>2, <3>1
  <2> QED
    BY <2>4, <2>5
<1> HIDE DEF IsValue, value
<1>11. \A k \in 0 .. n : value[k] = g[k]
  <2> DEFINE S == {k \in Nat : k <= n => value[k] = g[k]}
  <2>1. 0 \in S
    BY <1>6, <1>10
  <2>2. ASSUME NEW k \in Nat, k \in S PROVE k + 1 \in S
    <3> SUFFICES ASSUME k + 1 <= n PROVE value[k + 1] = g[k + 1]
      OBVIOUS
    <3>1. value[k] = g[k] /\ k \in 0 .. n - 1
      BY <1>1, <2>2
    <3>2. value[k + 1] = Add(value[k], b[k + 1], limit) /\ g[k + 1] = Add(g[k], b[k + 1], limit)
      BY <1>6, <1>10, <3>1
    <3> QED
      BY <3>1, <3>2, Zenon
  <2> HIDE DEF S
  <2>3. Nat \subseteq S
    BY <2>1, <2>2, Induct
  <2> QED
    BY <1>1, <2>3 DEF S
<1>12. Number(b, limit) = g[n]
  BY <1>1, <1>9, <1>11
<1> QED
  BY <1>6, <1>12, Zenon DEF n

\* The number of some digits after each of them.
Reads(b, v) ==
  /\ v \in [0 .. Len(b) -> Nat] /\ v[0] = 0
  /\ \A k \in 0 .. Len(b) - 1 :
       b[k + 1] \in 0 .. Radix - 1 /\ v[k + 1] = Radix * v[k] + b[k + 1]

\* Where there is a number, all are digits, and nothing is lost.
LEMMA NumberIsRead ==
  ASSUME NEW b \in Seq(Int), NEW limit \in Nat, Number(b, limit) # NoNumber
  PROVE  \E v : Reads(b, v) /\ v[Len(b)] = Number(b, limit) /\ v[Len(b)] \in 0 .. limit
<1> DEFINE n == Len(b)
<1>1. n \in Nat
  BY LenProperties
<1>2. PICK v \in [0 .. n -> Int] :
        /\ v[0] = 0
        /\ \A k \in 0 .. n - 1 : v[k + 1] = Add(v[k], b[k + 1], limit)
        /\ Number(b, limit) = v[n]
  BY NumberReads, Zenon
<1> HIDE DEF n
<1>3. \A k \in 0 .. n : v[k] # NoNumber
  <2> SUFFICES ASSUME NEW k \in 0 .. n, v[k] = NoNumber PROVE FALSE
    OBVIOUS
  <2> DEFINE S == {j \in Nat : k + j <= n => v[k + j] = NoNumber}
  <2>1. 0 \in S
    BY <1>1
  <2>2. ASSUME NEW j \in Nat, j \in S PROVE j + 1 \in S
    <3> SUFFICES ASSUME k + (j + 1) <= n PROVE v[k + (j + 1)] = NoNumber
      OBVIOUS
    <3>1. k + j \in 0 .. n - 1 /\ (k + j) + 1 = k + (j + 1) /\ v[k + j] = NoNumber
      BY <1>1, <2>2
    <3>2. v[(k + j) + 1] = Add(v[k + j], b[(k + j) + 1], limit)
      BY <1>2, <3>1, Zenon
    <3> QED
      BY <3>1, <3>2 DEF Add
  <2>3. n - k \in S
    <3> HIDE DEF S
    <3>1. Nat \subseteq S
      BY <2>1, <2>2, Induct
    <3> QED
      BY <1>1, <3>1
  <2>4. k + (n - k) = n
    BY <1>1
  <2> QED
    BY <1>1, <1>2, <2>3, <2>4
<1>4. ASSUME NEW k \in 0 .. n - 1
      PROVE  /\ b[k + 1] \in 0 .. Radix - 1 /\ v[k + 1] = v[k] * Radix + b[k + 1]
             /\ v[k + 1] <= limit
  <2>1. k \in 0 .. n /\ k + 1 \in 0 .. n
    BY <1>1
  <2>2. v[k + 1] # NoNumber /\ v[k + 1] = Add(v[k], b[k + 1], limit) /\ v[k] \in Int
    BY <1>2, <1>3, <2>1
  <2>3. ~(b[k + 1] \notin 0 .. Radix - 1 \/ v[k] * Radix + b[k + 1] > limit)
    BY <2>2, Zenon DEF Add
  <2>4. v[k + 1] = v[k] * Radix + b[k + 1]
    BY <2>2, <2>3, Zenon DEF Add
  <2>5. b[k + 1] \in 0 .. Radix - 1
    BY <2>3, Zenon
  <2>6. v[k] * Radix + b[k + 1] \in Int
    <3>1. \A x \in Int, r \in Nat : \A d \in 0 .. r - 1 : x * r + d \in Int
      OBVIOUS
    <3> QED
      BY <2>2, <2>5, <3>1, CountriesAssumption, Zenon
  <2>7. \A x \in Int : ~(x > limit) => x <= limit
    OBVIOUS
  <2>8. v[k + 1] <= limit
    BY <2>3, <2>4, <2>6, <2>7, Zenon
  <2> QED
    BY <2>4, <2>5, <2>8
<1>5. \A k \in 0 .. n : v[k] \in 0 .. limit
  <2> DEFINE S == {k \in Nat : k <= n => v[k] \in 0 .. limit}
  <2>1. 0 \in S
    BY <1>2
  <2>2. ASSUME NEW k \in Nat, k \in S PROVE k + 1 \in S
    <3> SUFFICES ASSUME k + 1 <= n PROVE v[k + 1] \in 0 .. limit
      OBVIOUS
    <3>1. k \in 0 .. n - 1 /\ v[k] \in 0 .. limit /\ Radix \in Nat
      BY <1>1, <2>2, CountriesAssumption
    <3>2. v[k] * Radix \in Nat
      BY <3>1
    <3>3. b[k + 1] \in 0 .. Radix - 1 /\ v[k + 1] = v[k] * Radix + b[k + 1] /\ v[k + 1] <= limit
      BY <1>4, <3>1
    <3>4. \A x \in Nat, d \in 0 .. Radix - 1 : x + d \in Nat
      BY <3>1
    <3>5. v[k + 1] \in Nat
      BY <3>2, <3>3, <3>4, Zenon
    <3> QED
      BY <3>3, <3>5
  <2> HIDE DEF S
  <2>3. Nat \subseteq S
    BY <2>1, <2>2, Induct
  <2> QED
    BY <1>1, <2>3 DEF S
<1>6. Reads(b, v)
  <2>1. v \in [0 .. n -> Nat]
    BY <1>2, <1>5
  <2>2. ASSUME NEW k \in 0 .. n - 1 PROVE v[k + 1] = Radix * v[k] + b[k + 1]
    <3>1. v[k] \in Nat /\ Radix \in Nat
      BY <1>1, <2>1, CountriesAssumption
    <3>2. v[k] * Radix = Radix * v[k]
      BY <3>1
    <3> QED
      BY <1>4, <3>2, Zenon
  <2> QED
    BY <1>2, <1>4, <2>1, <2>2, Zenon DEF Reads, n
<1>7. v[n] \in 0 .. limit
  BY <1>1, <1>5
<1> QED
  BY <1>2, <1>6, <1>7, Zenon DEF n

\* A text that is a number has no zero before it (parse_geoname).
Canonical(b) == b # <<>> /\ (Len(b) > 1 => b[1] # 0)

\* What is read at a digit.
LEMMA ReadsOne ==
  ASSUME NEW b \in Seq(Int), NEW v, Reads(b, v), NEW k \in 0 .. Len(b) - 1
  PROVE  /\ b[k + 1] \in 0 .. Radix - 1
         /\ v[k + 1] = Radix * v[k] + b[k + 1] /\ v[k] \in Nat
<1>1. k \in 0 .. Len(b)
  BY LenProperties
<1>2. v[k] \in Nat
  BY <1>1, Zenon DEF Reads
<1> QED
  BY <1>2, Zenon DEF Reads

\* After its first digit such a number is not zero, if there are more.
LEMMA NotZero ==
  ASSUME NEW b \in Seq(Int), NEW v, Reads(b, v), Canonical(b), Len(b) > 1,
         NEW j \in 1 .. Len(b)
  PROVE  v[j] >= 1
<1> DEFINE n == Len(b)
           S == {k \in Nat : k + 1 <= n => v[k + 1] >= 1}
<1>1. n \in Nat /\ Radix \in Nat \ {0, 1} /\ n > 1
  BY LenProperties, CountriesAssumption
<1>2. \A k \in 0 .. n - 1 : /\ b[k + 1] \in 0 .. Radix - 1
                            /\ v[k + 1] = Radix * v[k] + b[k + 1] /\ v[k] \in Nat
  BY ReadsOne
<1>3. v[0] = 0 /\ b[1] # 0
  BY <1>1 DEF Reads, Canonical
<1> HIDE DEF n
<1>4. 0 \in S
  <2>1. 0 \in 0 .. n - 1 /\ 0 + 1 = 1
    BY <1>1
  <2>2. b[1] \in 0 .. Radix - 1 /\ v[1] = Radix * v[0] + b[1]
    BY <1>2, <2>1
  <2>3. Radix * 0 = 0
    BY <1>1
  <2> QED
    BY <1>1, <1>3, <2>1, <2>2, <2>3
<1>5. ASSUME NEW k \in Nat, k \in S PROVE k + 1 \in S
  <2> SUFFICES ASSUME (k + 1) + 1 <= n PROVE v[(k + 1) + 1] >= 1
    OBVIOUS
  <2>1. k + 1 \in 0 .. n - 1 /\ v[k + 1] >= 1
    BY <1>1, <1>5
  <2>2. /\ b[(k + 1) + 1] \in 0 .. Radix - 1 /\ v[k + 1] \in Nat
        /\ v[(k + 1) + 1] = Radix * v[k + 1] + b[(k + 1) + 1]
    BY <1>2, <2>1
  <2>3. \A x \in Nat : x >= 1 => Radix * x >= 1 /\ Radix * x \in Nat
    <3> SUFFICES ASSUME NEW x \in Nat, x >= 1 PROVE Radix * x >= 1 /\ Radix * x \in Nat
      OBVIOUS
    <3>1. Radix * x >= Radix * 1
      BY <1>1
    <3> QED
      BY <1>1, <3>1
  <2>4. Radix * v[k + 1] >= 1 /\ Radix * v[k + 1] \in Nat /\ b[(k + 1) + 1] \in Nat
    <3>1. Radix * v[k + 1] >= 1 /\ Radix * v[k + 1] \in Nat
      BY <2>1, <2>2, <2>3, Zenon
    <3>2. \A x \in 0 .. Radix - 1 : x \in Nat
      BY <1>1
    <3> QED
      BY <2>2, <3>1, <3>2, Zenon
  <2>5. \A x, y \in Nat : x >= 1 => x + y >= 1
    OBVIOUS
  <2> QED
    BY <2>2, <2>4, <2>5, Zenon
<1>6. j - 1 \in S
  <2> HIDE DEF S
  <2>1. Nat \subseteq S
    BY <1>4, <1>5, Induct
  <2> QED
    BY <1>1, <2>1 DEF n
<1> QED
  BY <1>1, <1>6 DEF n

\* Of two texts read to one number, each is the other.
LEMMA OneSpelling ==
  ASSUME NEW a \in Seq(Int), NEW b \in Seq(Int), NEW v, NEW w,
         Reads(a, v), Reads(b, w), Canonical(a), Canonical(b), v[Len(a)] = w[Len(b)]
  PROVE  a = b
<1> DEFINE m == Len(a)
           n == Len(b)
           S == {i \in Nat : i <= m =>
                   \A j \in 0 .. n : i >= 1 /\ j >= 1 /\ v[i] = w[j] =>
                                       i = j /\ \A k \in 1 .. i : a[k] = b[k]}
<1>1. m \in Nat \ {0} /\ n \in Nat \ {0} /\ Radix \in Nat \ {0, 1}
  BY LenProperties, EmptySeq, CountriesAssumption DEF Canonical
<1>2. \A k \in 0 .. m - 1 : /\ a[k + 1] \in 0 .. Radix - 1
                            /\ v[k + 1] = Radix * v[k] + a[k + 1] /\ v[k] \in Nat
  BY ReadsOne
<1>3. \A k \in 0 .. n - 1 : /\ b[k + 1] \in 0 .. Radix - 1
                            /\ w[k + 1] = Radix * w[k] + b[k + 1] /\ w[k] \in Nat
  BY ReadsOne
<1>4. v[0] = 0 /\ w[0] = 0
  BY DEF Reads
<1>5. m > 1 => \A k \in 1 .. m : v[k] >= 1
  BY NotZero
<1>6. n > 1 => \A k \in 1 .. n : w[k] >= 1
  BY NotZero
<1> HIDE DEF m, n
<1>7. 0 \in S
  OBVIOUS
<1>8. ASSUME NEW i \in Nat, i \in S PROVE i + 1 \in S
  <2> SUFFICES ASSUME i + 1 <= m, NEW j \in 0 .. n, j >= 1, v[i + 1] = w[j]
               PROVE  i + 1 = j /\ \A k \in 1 .. i + 1 : a[k] = b[k]
    OBVIOUS
  <2>1. i \in 0 .. m - 1 /\ j - 1 \in 0 .. n - 1 /\ (j - 1) + 1 = j
    BY <1>1
  <2>2. a[i + 1] \in 0 .. Radix - 1 /\ v[i + 1] = Radix * v[i] + a[i + 1] /\ v[i] \in Nat
    BY <1>2, <2>1
  <2>3. b[j] \in 0 .. Radix - 1 /\ w[j] = Radix * w[j - 1] + b[j] /\ w[j - 1] \in Nat
    <3>1. /\ b[(j - 1) + 1] \in 0 .. Radix - 1 /\ w[j - 1] \in Nat
          /\ w[(j - 1) + 1] = Radix * w[j - 1] + b[(j - 1) + 1]
      BY <1>3, <2>1, Zenon
    <3> QED
      BY <2>1, <3>1
  <2>4. v[i] = w[j - 1] /\ a[i + 1] = b[j]
    <3>1. Radix \in Nat \ {0}
      BY <1>1
    <3>2. /\ (Radix * v[i] + a[i + 1]) \div Radix = v[i]
          /\ (Radix * v[i] + a[i + 1]) % Radix = a[i + 1]
      BY <2>2, <3>1, Quotient, Zenon
    <3>3. /\ (Radix * w[j - 1] + b[j]) \div Radix = w[j - 1]
          /\ (Radix * w[j - 1] + b[j]) % Radix = b[j]
      BY <2>3, <3>1, Quotient, Zenon
    <3> QED
      BY <2>2, <2>3, <3>2, <3>3, Zenon
  <2>5. CASE i = 0 /\ j = 1
    BY <2>4, <2>5
  <2>6. CASE i >= 1 /\ j - 1 >= 1
    <3>1. i = j - 1 /\ \A k \in 1 .. i : a[k] = b[k]
      BY <1>1, <1>8, <2>1, <2>4, <2>6
    <3> QED
      BY <2>4, <3>1
  <2>7. CASE i = 0 /\ j - 1 >= 1
    <3>1. n > 1 /\ j - 1 \in 1 .. n
      BY <1>1, <2>7
    <3> QED
      BY <1>4, <1>6, <2>4, <2>7, <3>1
  <2>8. CASE i >= 1 /\ j = 1
    <3>1. m > 1 /\ i \in 1 .. m
      BY <1>1, <2>8
    <3> QED
      BY <1>4, <1>5, <2>4, <2>8, <3>1
  <2> QED
    BY <2>1, <2>5, <2>6, <2>7, <2>8
<1>9. m = n /\ \A k \in 1 .. m : a[k] = b[k]
  <2>1. m \in S
    <3> HIDE DEF S
    <3>1. Nat \subseteq S
      BY <1>7, <1>8, Induct
    <3> QED
      BY <1>1, <3>1
  <2>2. m \in 0 .. m /\ n \in 0 .. n /\ m >= 1 /\ n >= 1 /\ v[m] = w[n]
    BY <1>1 DEF m, n
  <2> QED
    BY <1>1, <2>1, <2>2
<1> QED
  BY <1>9, SeqEqual DEF m, n

\* Two geonames with one number are one text (parse_geoname).
LEMMA ParsedApart ==
  ASSUME NEW a \in Geonames, NEW b \in Geonames, IsNumber(a),
         ParseGeoname(a) = ParseGeoname(b)
  PROVE  a = b
<1>1. a \in Seq(Int) /\ b \in Seq(Int) /\ MaxId \in Nat /\ IsNumber(b)
  BY CountriesAssumption DEF IsNumber
<1>2. /\ Canonical(a) /\ Canonical(b)
      /\ ParseGeoname(a) = Number(a, MaxId) /\ ParseGeoname(b) = Number(b, MaxId)
  BY <1>1 DEF ParseGeoname, IsNumber, Canonical
<1>3. Number(a, MaxId) # NoNumber /\ Number(b, MaxId) # NoNumber
  BY <1>1, <1>2 DEF IsNumber
<1>4. PICK v : Reads(a, v) /\ v[Len(a)] = Number(a, MaxId)
  BY <1>1, <1>3, NumberIsRead, Zenon
<1>5. PICK w : Reads(b, w) /\ w[Len(b)] = Number(b, MaxId)
  BY <1>1, <1>3, NumberIsRead, Zenon
<1> QED
  BY <1>1, <1>2, <1>4, <1>5, OneSpelling

\* A number fits (parse_geoname).
LEMMA ParsedFits ==
  ASSUME NEW a \in Geonames, IsNumber(a)
  PROVE  ParseGeoname(a) \in 0 .. MaxId
<1>1. a \in Seq(Int) /\ MaxId \in Nat
  BY CountriesAssumption
<1>2. ParseGeoname(a) = Number(a, MaxId) /\ Number(a, MaxId) # NoNumber
  BY DEF ParseGeoname, IsNumber
<1>3. PICK v : v[Len(a)] = Number(a, MaxId) /\ v[Len(a)] \in 0 .. MaxId
  BY <1>1, <1>2, NumberIsRead, Zenon
<1> QED
  BY <1>2, <1>3

-----------------------------------------------------------------------------
(***************************************************************************)
(* The steps of the load of the countries and of the rows looked up.       *)
(***************************************************************************)
\* The codes that have a name are finite, so each has a position among them.
LEMMA Positioned ==
  ASSUME NEW N \in SUBSET Codes
  PROVE  /\ IsFiniteSet(N) /\ Cardinality(N) \in Nat
         /\ \A c \in N : Cardinality({d \in N : d < c}) \in 0 .. Cardinality(N) - 1
<1>1. IsFiniteSet(Codes) /\ Codes \subseteq Nat
  <2>1. IsFiniteSet({A1, A2, O1})
    <3>1. IsFiniteSet({A1}) /\ IsFiniteSet({A2}) /\ IsFiniteSet({O1})
      BY FS_Singleton
    <3>2. {A1, A2, O1} = ({A1} \cup {A2}) \cup {O1}
      OBVIOUS
    <3>3. IsFiniteSet({A1} \cup {A2})
      BY <3>1, FS_Union
    <3>4. IsFiniteSet(({A1} \cup {A2}) \cup {O1})
      BY <3>1, <3>3, FS_Union, Zenon
    <3> QED
      BY <3>2, <3>4, Zenon
  <2>2. IsFiniteSet(Iso)
    BY CountriesAssumption
  <2> QED
    BY <2>1, <2>2, FS_Union, CountriesAssumption DEF Codes
<1>2. IsFiniteSet(N)
  BY <1>1, FS_Subset
<1>3. Cardinality(N) \in Nat
  BY <1>2, FS_CardinalityType
<1>4. ASSUME NEW c \in N
      PROVE  Cardinality({d \in N : d < c}) \in 0 .. Cardinality(N) - 1
  <2> DEFINE B == {d \in N : d < c}
  <2>1. c \notin B /\ B \subseteq N /\ c \in Nat
    BY <1>1
  <2> HIDE DEF B
  <2>2. /\ Cardinality(B) <= Cardinality(N)
        /\ Cardinality(B) = Cardinality(N) => B = N
        /\ IsFiniteSet(B)
    BY <1>2, <2>1, FS_Subset
  <2>3. Cardinality(B) \in Nat
    BY <2>2, FS_CardinalityType
  <2>4. Cardinality(B) # Cardinality(N)
    BY <2>1, <2>2
  <2> QED
    BY <1>3, <2>2, <2>3, <2>4 DEF B
<1> QED
  BY <1>2, <1>3, <1>4

\* The position of a code that has a name.
LEMMA IndexType ==
  ASSUME names \in SUBSET Codes, NEW c \in names
  PROVE  IndexOf(c) \in 0 .. Cardinality(names) - 1
BY Positioned DEF IndexOf

LEMMA PlacesType ==
  ASSUME places \in Locations \cup {<<>>}
  PROVE  places \in Seq(Location)
<1>1. <<>> \in Seq(Location)
  OBVIOUS
<1> QED
  BY <1>1, CountriesAssumption, Zenon

\* A place, and the code it gives its geoname.
LEMMA PlaceTypes ==
  ASSUME CountriesTypeOK, row_read \in DOMAIN places
  PROVE  /\ places[row_read].geoname \in Geonames
         /\ CodeOf(places[row_read]) \in Codes
<1>1. places \in Seq(Location)
  BY PlacesType DEF CountriesTypeOK
<1>2. places[row_read] \in Location
  BY <1>1, ElementOfSeq, LenProperties
<1>3. O1 \in Codes
  BY DEF Codes
<1> QED
  BY <1>2, <1>3 DEF Location, CodeOf

\* What may change of the parts when nothing of them does.
LEMMA CountriesQuiet ==
  ASSUME CountriesInv, UNCHANGED countries
  PROVE  CountriesInv'
<1>1. CountriesTypeOK'
  BY DEF countries, CountriesInv, CountriesTypeOK
<1>2. IndexInv'
  <2>1. \A c : IndexOf(c)' = IndexOf(c)
    BY DEF countries, IndexOf
  <2> QED
    BY <2>1 DEF countries, CountriesInv, IndexInv
<1>3. RowInv'
  <2>1. \A f : Positions(f)' = Positions(f)
    BY DEF countries, IndexOf, Positions
  <2> QED
    BY <2>1 DEF countries, CountriesInv, RowInv
<1> QED
  BY <1>1, <1>2, <1>3 DEF CountriesInv

LEMMA CountriesStart ==
  ASSUME CountriesInit
  PROVE  CountriesInv
<1>1. IsFiniteSet({}) /\ Cardinality({}) = 0
  BY FS_EmptySet
<1>2. CountriesTypeOK
  <2>1. DOMAIN country_id = {} /\ DOMAIN by_str = {} /\ Len(places) = 0
    BY DEF CountriesInit
  <2>2. range \in Seq(0 .. 2 ^ Width - 1)
    <3>1. range = <<>> /\ \A S : <<>> \in Seq(S)
      BY DEF CountriesInit
    <3> QED
      BY <3>1, Zenon
  <2>3. row_read \in 1 .. Len(places) + 1 /\ country \in -1 .. Cardinality(names) - 1
    BY <1>1, <2>1 DEF CountriesInit
  <2>4. /\ DOMAIN country_id \subseteq Geonames /\ \A g \in DOMAIN country_id : country_id[g] \in Codes
        /\ \A g \in DOMAIN by_str : by_str[g] \in 0 .. Cardinality(names) - 1
        /\ DOMAIN by_str \subseteq Geonames
    BY <2>1
  <2>5. /\ stage \in Stages /\ places \in Locations \cup {<<>>} /\ legacy \in BOOLEAN
        /\ names \subseteq Codes /\ by_id = {}
    BY Zenon DEF CountriesInit, Stages
  <2> QED
    BY <2>2, <2>3, <2>4, <2>5, Zenon DEF CountriesTypeOK
<1>3. IndexInv /\ RowInv
  BY DEF CountriesInit, IndexInv, RowInv
<1> QED
  BY <1>2, <1>3 DEF CountriesInv

LEMMA StartLoadKeeps ==
  ASSUME CountriesInv, StartLoad
  PROVE  CountriesInv'
<1>1. CountriesTypeOK'
  <2>1. Len(places') \in Nat
    <3>1. places' \in Seq(Location)
      BY CountriesAssumption DEF StartLoad
    <3> QED
      BY <3>1, LenProperties
  <2>2. row_read' = 1
    BY DEF StartLoad, CountriesInv, RowInv
  <2>3. row_read' \in 1 .. Len(places') + 1
    BY <2>1, <2>2
  <2> QED
    BY <2>3 DEF StartLoad, Unread, CountriesInv, CountriesTypeOK, Stages
<1>2. IndexInv' /\ RowInv'
  BY DEF StartLoad, Unread, CountriesInv, IndexInv, RowInv
<1> QED
  BY <1>1, <1>2 DEF CountriesInv

LEMMA LoadStopsKeeps ==
  ASSUME CountriesInv, LoadStops
  PROVE  CountriesInv'
<1>1. CountriesTypeOK'
  BY DEF LoadStops, Unread, CountriesInv, CountriesTypeOK, Stages
<1>2. IndexInv' /\ RowInv'
  BY DEF LoadStops, Unread, CountriesInv, IndexInv, RowInv
<1> QED
  BY <1>1, <1>2 DEF CountriesInv

LEMMA ReadLocationKeeps ==
  ASSUME CountriesInv, ReadLocation
  PROVE  CountriesInv'
<1> DEFINE l == places[row_read]
<1>1. l.geoname \in Geonames /\ CodeOf(l) \in Codes
  BY PlaceTypes DEF ReadLocation, CountriesInv
<1>2. /\ country_id' = [g \in DOMAIN country_id \cup {l.geoname} |->
                          IF g = l.geoname THEN CodeOf(l) ELSE country_id[g]]
      /\ names' = names \cup {CodeOf(l)}
  BY DEF ReadLocation
<1> HIDE DEF l
<1>3. /\ DOMAIN country_id' = DOMAIN country_id \cup {l.geoname}
      /\ \A g \in DOMAIN country_id' :
           country_id'[g] = IF g = l.geoname THEN CodeOf(l) ELSE country_id[g]
  BY <1>2
<1>4. /\ names \subseteq Codes /\ names' \subseteq Codes
      /\ \A g \in DOMAIN country_id : country_id[g] \in names
  BY <1>1, <1>2 DEF CountriesInv, CountriesTypeOK, IndexInv
<1>5. Cardinality(names') \in Nat
  BY <1>4, Positioned
<1>6. stage = "locations" /\ by_id = {} /\ by_str = <<>> /\ country = -1
  BY DEF ReadLocation, CountriesInv, IndexInv, RowInv
<1>7. CountriesTypeOK'
  <2>1. row_read' \in 1 .. Len(places') + 1
    <3>1. Len(places) \in Nat /\ places' = places /\ row_read' = row_read + 1
          /\ row_read \in 1 .. Len(places)
      <4>1. places \in Seq(Location)
        BY PlacesType DEF CountriesInv, CountriesTypeOK
      <4> QED
        BY <4>1, LenProperties DEF ReadLocation
    <3> QED
      BY <3>1
  <2>2. DOMAIN country_id' \subseteq Geonames /\ \A g \in DOMAIN country_id' : country_id'[g] \in Codes
    BY <1>1, <1>3 DEF CountriesInv, CountriesTypeOK
  <2>3. by_id' = {} /\ DOMAIN by_str' = {}
    BY <1>6 DEF ReadLocation, Unread
  <2>4. country' \in -1 .. Cardinality(names') - 1
    BY <1>5, <1>6 DEF ReadLocation, Unread
  <2> QED
    BY <1>4, <2>1, <2>2, <2>3, <2>4 DEF ReadLocation, Unread, CountriesInv, CountriesTypeOK
<1>8. IndexInv'
  <2>1. \A g \in DOMAIN country_id' : country_id'[g] \in names'
    BY <1>2, <1>3, <1>4
  <2> QED
    BY <1>6, <2>1 DEF ReadLocation, Unread, IndexInv
<1>9. RowInv'
  BY <1>6 DEF ReadLocation, Unread, RowInv
<1> QED
  BY <1>7, <1>8, <1>9 DEF CountriesInv

LEMMA LoadedKeeps ==
  ASSUME CountriesInv, Loaded
  PROVE  CountriesInv'
<1>1. /\ names' = names \cup {A1, A2, O1} /\ names' \subseteq Codes
      /\ stage = "locations" /\ by_id = {} /\ by_str = <<>> /\ country = -1
  BY DEF Loaded, CountriesInv, CountriesTypeOK, IndexInv, RowInv, Codes
<1>2. Cardinality(names') \in Nat
  BY <1>1, Positioned
<1>3. CountriesTypeOK'
  <2>1. by_id' = {} /\ DOMAIN by_str' = {}
    BY <1>1 DEF Loaded, Unread
  <2>2. country' \in -1 .. Cardinality(names') - 1
    BY <1>1, <1>2 DEF Loaded, Unread
  <2> QED
    BY <1>1, <2>1, <2>2 DEF Loaded, Unread, CountriesInv, CountriesTypeOK, Stages
<1>4. IndexInv' /\ RowInv'
  BY <1>1 DEF Loaded, Unread, CountriesInv, IndexInv, RowInv
<1> QED
  BY <1>3, <1>4 DEF CountriesInv

LEMMA MakeIndexKeeps ==
  ASSUME CountriesInv, MakeIndex
  PROVE  CountriesInv'
<1>1. /\ by_id' = {<<ParseGeoname(n), IndexOf(country_id[n])>> :
                    n \in {n \in DOMAIN country_id : IsNumber(n)}}
      /\ by_str' = [n \in {n \in DOMAIN country_id : ~IsNumber(n)} |-> IndexOf(country_id[n])]
      /\ stage = "index" /\ stage' = "blocks"
      /\ UNCHANGED <<places, legacy, row_read, country_id, names, row, range, country>>
  BY DEF MakeIndex
<1>2. /\ names \subseteq Codes /\ DOMAIN country_id \subseteq Geonames
      /\ \A g \in DOMAIN country_id : country_id[g] \in names
      /\ {A1, A2, O1} \subseteq names /\ country = -1
  BY <1>1 DEF CountriesInv, CountriesTypeOK, IndexInv, RowInv
<1>3. \A g \in DOMAIN country_id : IndexOf(country_id[g]) \in 0 .. Cardinality(names) - 1
  BY <1>2, IndexType
<1>4. \A g \in DOMAIN country_id : IsNumber(g) => ParseGeoname(g) \in 0 .. MaxId
  BY <1>2, ParsedFits
<1>5. /\ \A e \in by_id' : e[1] \in 0 .. MaxId /\ e[2] \in 0 .. Cardinality(names) - 1
      /\ DOMAIN by_str' \subseteq Geonames
      /\ \A g \in DOMAIN by_str' : by_str'[g] \in 0 .. Cardinality(names) - 1
  BY <1>1, <1>2, <1>3, <1>4
<1>6. CountriesTypeOK'
  BY <1>1, <1>5 DEF CountriesInv, CountriesTypeOK, Stages
<1>7. IndexInv'
  <2>1. \A c : IndexOf(c)' = IndexOf(c)
    BY <1>1 DEF IndexOf
  <2> QED
    BY <1>1, <1>2, <2>1 DEF IndexInv
<1>8. RowInv'
  BY <1>1, <1>2 DEF RowInv
<1> QED
  BY <1>6, <1>7, <1>8 DEF CountriesInv

LEMMA ReadRowKeeps ==
  ASSUME CountriesInv, NEW a \in 0 .. LastAddress, NEW p \in 0 .. Width, NEW f \in Fields,
         ReadRow(a, p, f)
  PROVE  CountriesInv'
<1>1. /\ row' = [address |-> a, prefix |-> p, fields |-> f] /\ range' = Cidr(a, p)
      /\ stage = "blocks" /\ stage' = "network"
      /\ UNCHANGED <<places, legacy, row_read, country_id, names, by_id, by_str, country>>
  BY DEF ReadRow
<1>2. range' \in Seq(0 .. 2 ^ Width - 1)
  BY <1>1, CidrCovers DEF LastAddress
<1>3. CountriesTypeOK'
  BY <1>1, <1>2 DEF CountriesInv, CountriesTypeOK, Stages
<1>4. IndexInv'
  <2>1. \A c : IndexOf(c)' = IndexOf(c)
    BY <1>1 DEF IndexOf
  <2> QED
    BY <1>1, <2>1 DEF CountriesInv, IndexInv
<1>5. RowInv'
  <2>1. /\ row' \in [address : 0 .. LastAddress, prefix : 0 .. Width, fields : Fields]
        /\ row'.address = a /\ row'.prefix = p
    BY <1>1
  <2> QED
    BY <1>1, <2>1 DEF CountriesInv, RowInv
<1> QED
  BY <1>3, <1>4, <1>5 DEF CountriesInv

LEMMA ResolveKeeps ==
  ASSUME CountriesInv, Resolve
  PROVE  CountriesInv'
<1>1. /\ country' \in Positions(row.fields) /\ stage = "network" /\ stage' = "resolved"
      /\ UNCHANGED <<places, legacy, row_read, country_id, names, by_id, by_str, row, range>>
  BY DEF Resolve
<1>2. /\ names \subseteq Codes /\ {A1, A2, O1} \subseteq names
      /\ \A e \in by_id : e[2] \in 0 .. Cardinality(names) - 1
      /\ \A g \in DOMAIN by_str : by_str[g] \in 0 .. Cardinality(names) - 1
  BY <1>1 DEF CountriesInv, CountriesTypeOK, IndexInv
<1>3. \A c \in {A1, A2, O1} : IndexOf(c) \in 0 .. Cardinality(names) - 1
  BY <1>2, IndexType
<1>4. country' \in 0 .. Cardinality(names) - 1
  BY <1>1, <1>2, <1>3 DEF Positions
<1>5. Cardinality(names) \in Nat
  BY <1>2, Positioned
<1>6. CountriesTypeOK'
  BY <1>1, <1>4, <1>5 DEF CountriesInv, CountriesTypeOK, Stages
<1>7. \A c : IndexOf(c)' = IndexOf(c)
  BY <1>1 DEF IndexOf
<1>8. IndexInv'
  BY <1>1, <1>7 DEF CountriesInv, IndexInv
<1>9. RowInv'
  <2>1. Positions(row.fields)' = Positions(row.fields)
    BY <1>1, <1>7 DEF Positions
  <2> QED
    BY <1>1, <2>1 DEF CountriesInv, RowInv
<1> QED
  BY <1>6, <1>8, <1>9 DEF CountriesInv

LEMMA RowDoneKeeps ==
  ASSUME CountriesInv, RowDone
  PROVE  CountriesInv'
<1>1. /\ stage = "resolved" /\ stage' = "blocks" /\ range' = <<>> /\ country' = -1
      /\ UNCHANGED <<places, legacy, row_read, country_id, names, by_id, by_str>>
  BY DEF RowDone
<1>2. Cardinality(names) \in Nat
  BY Positioned DEF CountriesInv, CountriesTypeOK
<1>3. CountriesTypeOK'
  <2>1. range' \in Seq(0 .. 2 ^ Width - 1)
    BY <1>1
  <2> QED
    BY <1>1, <1>2, <2>1 DEF CountriesInv, CountriesTypeOK, Stages
<1>4. IndexInv'
  <2>1. \A c : IndexOf(c)' = IndexOf(c)
    BY <1>1 DEF IndexOf
  <2> QED
    BY <1>1, <2>1 DEF CountriesInv, IndexInv
<1>5. RowInv'
  BY <1>1 DEF RowInv
<1> QED
  BY <1>3, <1>4, <1>5 DEF CountriesInv

LEMMA CountriesKeeps ==
  ASSUME CountriesInv, CountriesNext
  PROVE  CountriesInv'
<1>1. CASE StartLoad
  BY <1>1, StartLoadKeeps
<1>2. CASE LoadStops
  BY <1>2, LoadStopsKeeps
<1>3. CASE ReadLocation
  BY <1>3, ReadLocationKeeps
<1>4. CASE Loaded
  BY <1>4, LoadedKeeps
<1>5. CASE MakeIndex
  BY <1>5, MakeIndexKeeps
<1>6. ASSUME NEW a \in 0 .. LastAddress, NEW p \in 0 .. Width, NEW f \in Fields, ReadRow(a, p, f)
      PROVE  CountriesInv'
  BY <1>6, ReadRowKeeps
<1>7. CASE Resolve
  BY <1>7, ResolveKeeps
<1>8. CASE RowDone
  BY <1>8, RowDoneKeeps
<1> QED
  BY <1>1, <1>2, <1>3, <1>4, <1>5, <1>6, <1>7, <1>8 DEF CountriesNext

\* What the index finds is what a search for the text of the geoname does
\* (CountryIndex::resolve).
LEMMA ResolvesAsWritten ==
  ASSUME CountriesInv, stage = "resolved"
  PROVE  country = IndexOf(ResolvedCode(row.fields)) /\ ResolvedCode(row.fields) \in names
<1> DEFINE f == row.fields
<1>1. /\ DOMAIN country_id \subseteq Geonames
      /\ \A g \in DOMAIN country_id : country_id[g] \in names
      /\ {A1, A2, O1} \subseteq names
      /\ by_id = {<<ParseGeoname(n), IndexOf(country_id[n])>> :
                   n \in {n \in DOMAIN country_id : IsNumber(n)}}
      /\ by_str = [n \in {n \in DOMAIN country_id : ~IsNumber(n)} |-> IndexOf(country_id[n])]
      /\ country \in Positions(f)
      /\ row \in [address : 0 .. LastAddress, prefix : 0 .. Width, fields : Fields]
  BY DEF CountriesInv, CountriesTypeOK, IndexInv, RowInv
<1>2. Key(f) \in Geonames
  BY <1>1, CountriesAssumption DEF Key
<1> HIDE DEF f
<1>3. CASE f.proxy
  BY <1>1, <1>3 DEF Positions, ResolvedCode, f
<1>4. CASE ~f.proxy /\ f.sat
  BY <1>1, <1>4 DEF Positions, ResolvedCode, f
<1>5. CASE ~f.proxy /\ ~f.sat /\ Key(f) = <<>>
  BY <1>1, <1>5 DEF Positions, ResolvedCode, f
<1>6. CASE ~f.proxy /\ ~f.sat /\ Key(f) # <<>> /\ IsNumber(Key(f))
  <2> DEFINE found == {e \in by_id : e[1] = ParseGeoname(Key(f))}
  <2>1. country \in IF found = {} THEN {IndexOf(O1)} ELSE {e[2] : e \in found}
    BY <1>1, <1>6 DEF Positions
  <2>2. ASSUME NEW e \in found
        PROVE  Key(f) \in DOMAIN country_id /\ e[2] = IndexOf(country_id[Key(f)])
    <3>1. PICK n \in {n \in DOMAIN country_id : IsNumber(n)} :
            e = <<ParseGeoname(n), IndexOf(country_id[n])>>
      BY <1>1
    <3>2. ParseGeoname(n) = ParseGeoname(Key(f)) /\ e[2] = IndexOf(country_id[n])
      BY <3>1
    <3>3. n = Key(f)
      BY <1>1, <1>2, <3>1, <3>2, ParsedApart
    <3> QED
      BY <3>1, <3>2, <3>3
  <2>3. Key(f) \in DOMAIN country_id => found # {}
    <3> SUFFICES ASSUME Key(f) \in DOMAIN country_id PROVE found # {}
      OBVIOUS
    <3>1. <<ParseGeoname(Key(f)), IndexOf(country_id[Key(f)])>> \in found
      BY <1>1, <1>6
    <3> QED
      BY <3>1
  <2> HIDE DEF found
  <2>4. CASE Key(f) \in DOMAIN country_id
    <3>1. ResolvedCode(f) = country_id[Key(f)]
      BY <1>6, <2>4 DEF ResolvedCode
    <3>2. country = IndexOf(country_id[Key(f)])
      BY <2>1, <2>2, <2>3, <2>4
    <3> QED
      BY <1>1, <2>4, <3>1, <3>2 DEF f
  <2>5. CASE Key(f) \notin DOMAIN country_id
    <3>1. ResolvedCode(f) = O1
      BY <1>6, <2>5 DEF ResolvedCode
    <3>2. country = IndexOf(O1)
      BY <2>1, <2>2, <2>5
    <3> QED
      BY <1>1, <3>1, <3>2 DEF f
  <2> QED
    BY <2>4, <2>5
<1>7. CASE ~f.proxy /\ ~f.sat /\ Key(f) # <<>> /\ ~IsNumber(Key(f))
  <2>1. country = IF Key(f) \in DOMAIN by_str THEN by_str[Key(f)] ELSE IndexOf(O1)
    BY <1>1, <1>7 DEF Positions
  <2>2. Key(f) \in DOMAIN by_str <=> Key(f) \in DOMAIN country_id
    BY <1>1, <1>7
  <2>3. Key(f) \in DOMAIN country_id => by_str[Key(f)] = IndexOf(country_id[Key(f)])
    BY <1>1, <1>7
  <2>4. ResolvedCode(f) = IF Key(f) \in DOMAIN country_id THEN country_id[Key(f)] ELSE O1
    BY <1>7 DEF ResolvedCode
  <2> QED
    BY <1>1, <2>1, <2>2, <2>3, <2>4 DEF f
<1> QED
  BY <1>3, <1>4, <1>5, <1>6, <1>7

\* So a row stands for what its text says.
LEMMA WrittenSo ==
  ASSUME CountriesInv
  PROVE  RowAsWritten
<1>1. ASSUME stage = "network"
      PROVE  range[1] .. range[2] =
               {a \in 0 .. LastAddress :
                  a \div 2 ^ (Width - row.prefix) = row.address \div 2 ^ (Width - row.prefix)}
  <2>1. row.address \in 0 .. LastAddress /\ row.prefix \in 0 .. Width
    BY <1>1 DEF CountriesInv, RowInv
  <2>2. range = Cidr(row.address, row.prefix)
    BY <1>1 DEF CountriesInv, RowInv
  <2> QED
    BY <2>1, <2>2, CidrCovers
<1> QED
  BY <1>1, ResolvesAsWritten DEF RowAsWritten

-----------------------------------------------------------------------------
(***************************************************************************)
(* A fetch and the build after it.                                         *)
(***************************************************************************)
\* Of what is handed on, nothing is left to an extraction.
LEMMA HandedKeeps ==
  ASSUME ExtractionInv, DirectoryHanded
  PROVE  ExtractionInv'
<1>1. /\ phase' = "handed" /\ archive' = <<>> /\ pos' = 1 /\ prefix' = None /\ nested' = FALSE
      /\ ambiguous' = FALSE /\ out' = <<>> /\ total' = 0
  BY DEF DirectoryHanded
<1>2. ExtractionTypeOK'
  <2>1. DOMAIN out' = {}
    BY <1>1
  <2>2. DOMAIN out' \subseteq Seq(Components) /\ \A path \in DOMAIN out' : out'[path] \in Things
    BY <2>1
  <2>3. pos' \in Nat /\ pos' >= 1 /\ total' \in Nat
    BY <1>1
  <2> QED
    BY <1>1, <2>2, <2>3, Zenon DEF ExtractionTypeOK
<1>3. BudgetHolds'
  BY <1>1, ExtractionAssumption DEF BudgetHolds
<1>4. ScanInv' /\ StripInv' /\ FilesInv' /\ EndInv' /\ ValidInv' /\ NoneOverwritten'
  BY <1>1 DEF ScanInv, StripInv, FilesInv, EndInv, ValidInv, NoneOverwritten
<1> QED
  BY <1>2, <1>3, <1>4 DEF ExtractionInv

LEMMA ExtractionGoesOn == ExtractionNext => phase # "handed"
BY DEF ExtractionNext, Open, Fails, ScanEntry, ScanRefuses, ScanDone, SkipEntry, ExtractFolder,
       ExtractFile, ExtractRefuses, ExtractDone, Validate, Invalid, Extracting

\* The invariant of the two, which a step of either keeps.
LEMMA InputKeeps ==
  ASSUME InputInv, InputNext
  PROVE  InputInv'
<1> USE DEF InputInv
<1>1. CASE ExtractionNext /\ UNCHANGED countries
  <2>1. phase # "handed"
    BY <1>1, ExtractionGoesOn
  <2>2. stage' = "wait"
    BY <1>1, <2>1 DEF countries
  <2> QED
    BY <1>1, <2>2, ExtractionKeeps, CountriesQuiet
<1>2. CASE StartBuild
  <2>1. phase' = "handed"
    BY <1>2 DEF StartBuild, DirectoryHanded
  <2> QED
    BY <1>2, <2>1, HandedKeeps, StartLoadKeeps DEF StartBuild
<1>3. CASE ColumnMissing
  <2>1. /\ DirectoryHanded /\ stage' = "failed" /\ stage = "wait" /\ phase' = "handed"
        /\ UNCHANGED <<places, legacy, row_read, country_id, names, by_id, by_str, row, range, country>>
    BY <1>3 DEF ColumnMissing, DirectoryHanded
  <2>2. CountriesInv'
    BY <2>1 DEF CountriesInv, CountriesTypeOK, Stages, IndexInv, RowInv
  <2> QED
    BY <2>1, <2>2, HandedKeeps
<1>4. CASE phase = "handed" /\ CountriesNext /\ UNCHANGED extraction
  <2>1. phase' = "handed"
    BY <1>4 DEF extraction
  <2> QED
    BY <1>4, <2>1, CountriesKeeps, ExtractionQuiet
<1> QED
  BY <1>1, <1>2, <1>3, <1>4 DEF InputNext

LEMMA InputStart ==
  ASSUME InputInit
  PROVE  InputInv
BY Start, CountriesStart DEF InputInit, InputInv, CountriesInit

LEMMA InputQuiet ==
  ASSUME InputInv, UNCHANGED inputs
  PROVE  InputInv'
<1>1. UNCHANGED extraction /\ UNCHANGED countries
  BY DEF inputs
<1>2. UNCHANGED <<phase, stage>>
  BY <1>1 DEF extraction, countries
<1> QED
  BY <1>1, <1>2, ExtractionQuiet, CountriesQuiet DEF InputInv

\* What the invariant says of what is handed on, and of what is refused.
LEMMA ValidWhenDone ==
  ASSUME ExtractionInv
  PROVE  HandsOnValid
<1> SUFFICES ASSUME phase = "done", NEW f \in Required
             PROVE  \E j \in DOMAIN archive :
                      /\ archive[j].path \in {<<f>>, <<prefix, f>>}
                      /\ archive[j].csv # "bad"
                      /\ <<f>> \in DOMAIN out
                      /\ out[<<f>>] = [of |-> j, bytes |-> archive[j].size]
  BY DEF HandsOnValid
<1> DEFINE j == out[<<f>>].of
<1>1. /\ ExtractionTypeOK /\ StripInv /\ FilesInv
      /\ total <= MaxBytes /\ HasColumns(f)
  BY DEF ExtractionInv, EndInv, ValidInv
<1>2. <<f>> \in DOMAIN out /\ j # 0 /\ archive[j].csv # "bad"
  BY <1>1 DEF HasColumns, IsFile
<1>3. /\ j \in DOMAIN archive /\ archive[j].path # <<>> /\ Relative(archive[j].path) = <<f>>
      /\ out[<<f>>].bytes = archive[j].size
  BY <1>1, <1>2 DEF FilesInv
<1>4. out[<<f>>] \in Things
  BY <1>1, <1>2 DEF ExtractionTypeOK
<1>5. out[<<f>>] = [of |-> j, bytes |-> archive[j].size]
  BY <1>3, <1>4 DEF Things
<1>6. archive[j].path \in {<<f>>, <<prefix, f>>}
  <2>1. CASE prefix = None
    BY <1>3, <2>1 DEF Relative
  <2>2. CASE prefix # None
    <3>1. /\ archive[j].path \in Seq(Components) /\ prefix \in Components /\ f \in Components
      BY <1>1, <1>3, <2>2, EntryTypes, ExtractionAssumption DEF ExtractionTypeOK
    <3>2. Head(archive[j].path) = prefix /\ Tail(archive[j].path) = <<f>>
      BY <1>1, <1>3, <2>2 DEF StripInv, Relative
    <3>3. archive[j].path = <<prefix, f>>
      BY <1>3, <3>1, <3>2, TwoLong
    <3> QED
      BY <3>3
  <2> QED
    BY <2>1, <2>2
<1> QED
  BY <1>2, <1>3, <1>5, <1>6

LEMMA NothingWhenRefused ==
  ASSUME ExtractionInv
  PROVE  RefusedLeavesNothing
BY DEF ExtractionInv, ExtractionTypeOK, ScanInv, StripInv, RefusedLeavesNothing

-----------------------------------------------------------------------------
(***************************************************************************)
(* Theorems.                                                               *)
(***************************************************************************)
\* The inductive invariant: what the scan has passed begins with the prefix,
\* and each file extracted is the whole of an entry (scan_zip_entries,
\* extract_archive_to_temp_capped).
THEOREM ExtractionInvariance == ExtractionSpec => []ExtractionInv
<1>1. ExtractionInit => ExtractionInv
  BY Start
<1>2. ExtractionInv /\ [ExtractionNext]_extraction => ExtractionInv'
  BY ExtractionKeeps, ExtractionQuiet
<1> QED
  BY <1>1, <1>2, PTL DEF ExtractionSpec

\* One byte over the limit is the most that is ever written
\* (extract_archive_to_temp_capped).
THEOREM WithinBudget == ExtractionSpec => []BudgetHolds
<1>1. ExtractionInv => BudgetHolds
  BY DEF ExtractionInv
<1> QED
  BY <1>1, ExtractionInvariance, PTL

\* No file takes another's place when the common directory is stripped
\* (scan_zip_entries, extract_archive_to_temp_capped).
THEOREM PathsStayApart == ExtractionSpec => []NoneOverwritten
<1>1. ExtractionInv => NoneOverwritten
  BY DEF ExtractionInv
<1> QED
  BY <1>1, ExtractionInvariance, PTL

\* Nothing is extracted of an archive with an entry the scan refuses
\* (scan_zip_entries).
THEOREM ScanComesFirst == ExtractionSpec => []RefusedLeavesNothing
<1> QED
  BY NothingWhenRefused, ExtractionInvariance, PTL

\* What a build is handed has its files at the top, whole, each from an entry
\* of its name (extract_and_validate).
THEOREM HandedOnIsValid == ExtractionSpec => []HandsOnValid
<1> QED
  BY ValidWhenDone, ExtractionInvariance, PTL
=============================================================================
