------------------------------ MODULE RangeMerge ------------------------------
(***************************************************************************)
(* merge_ranges_in_place: the ranges of one country are sorted by their    *)
(* start and merged in the vector they are in, with a write cursor w that  *)
(* follows the read cursor rd.  Cursors count from 1 here.                  *)
(***************************************************************************)
EXTENDS Integers, Sequences

CONSTANTS
  Max,     \* the last address: u32::MAX or u128::MAX
  Ranges,  \* the ranges a row may have
  MaxRows  \* bound on the rows of a country

Addresses == 0 .. Max

Intervals == {iv \in Addresses \X Addresses : iv[1] <= iv[2]}

ASSUME RangesAssumption ==
  /\ Max \in Nat
  /\ Ranges \subseteq Intervals
  /\ MaxRows \in Nat

VARIABLES
  input,   \* the ranges in the order the chunks delivered them
  ranges,  \* the vector
  w, rd,    \* the cursors
  at

merging == <<input, ranges, w, rd, at>>

\* What is in a sequence of ranges.
CoveredBy(q) == UNION {q[k][1] .. q[k][2] : k \in DOMAIN q}

MergeTypeOK ==
  /\ input \in Seq(Ranges)
  /\ ranges \in Seq(Intervals)
  /\ w \in Nat /\ rd \in Nat
  /\ at \in {"sort", "merge", "done"}

MergeInit ==
  /\ input = <<>> /\ ranges = <<>>
  /\ w = 0 /\ rd = 0
  /\ at = "sort"

\* The pool of a country; what ranges its rows have is theirs.
TakePool ==
  /\ at = "sort" /\ input = <<>>
  /\ \E n \in 0 .. MaxRows :
       \E rs \in [1 .. n -> Ranges] : input' = rs /\ ranges' = rs
  /\ UNCHANGED <<w, rd, at>>

Empty ==
  /\ at = "sort"
  /\ ranges = <<>>
  /\ at' = "done"
  /\ UNCHANGED <<input, ranges, w, rd>>

Sorted(q) == \A j, k \in DOMAIN q : j < k => q[j][1] <= q[k][1]

\* The sort is not stable: ranges with one start come in any order.
Sort ==
  /\ at = "sort"
  /\ ranges # <<>>
  /\ \E order \in [DOMAIN ranges -> DOMAIN ranges] :
       /\ \A k \in DOMAIN ranges : \E j \in DOMAIN ranges : order[j] = k
       /\ ranges' = [k \in DOMAIN ranges |-> ranges[order[k]]]
       /\ Sorted(ranges')
  /\ w' = 1 /\ rd' = 2
  /\ at' = "merge"
  /\ UNCHANGED input

\* Faulty: the increment wraps.
IncWraps(a) == (a + 1) % (Max + 1)

\* saturating_inc.
Inc(a) == IF a = Max THEN Max ELSE a + 1

LaterEnd(a, b) == IF a >= b THEN a ELSE b

Joins == ranges[rd][1] <= Inc(ranges[w][2])

Join ==
  /\ at = "merge" /\ rd <= Len(ranges)
  /\ Joins
  /\ ranges' = [ranges EXCEPT ![w] = <<@[1], LaterEnd(@[2], ranges[rd][2])>>]
  /\ rd' = rd + 1
  /\ UNCHANGED <<input, w, at>>

OpenRun ==
  /\ at = "merge" /\ rd <= Len(ranges)
  /\ ~Joins
  /\ w' = w + 1
  /\ ranges' = [ranges EXCEPT ![w + 1] = ranges[rd]]
  /\ rd' = rd + 1
  /\ UNCHANGED <<input, at>>

Kept == w

Truncate ==
  /\ at = "merge" /\ rd > Len(ranges)
  /\ ranges' = SubSeq(ranges, 1, Kept)
  /\ at' = "done"
  /\ UNCHANGED <<input, w, rd>>

MergeNext == TakePool \/ Empty \/ Sort \/ Join \/ OpenRun \/ Truncate

-----------------------------------------------------------------------------
(***************************************************************************)
(* Properties.                                                             *)
(***************************************************************************)
\* The longest runs of addresses in a set of addresses.
Runs(S) ==
  {iv \in S \X S : /\ iv[1] <= iv[2] /\ iv[1] .. iv[2] \subseteq S
                  /\ iv[1] - 1 \notin S /\ iv[2] + 1 \notin S}

\* The result is the runs of what the rows cover, in order: it is the same
\* whatever order the chunks came in and however the sort broke its ties.
ResultIsRuns ==
  at = "done" =>
    /\ {ranges[k] : k \in DOMAIN ranges} = Runs(CoveredBy(input))
    /\ \A j, k \in DOMAIN ranges : j < k => ranges[j][2] < ranges[k][1]

(***************************************************************************)
(* What the argument rests on.                                             *)
(***************************************************************************)
\* Where the loop is: what is merged lies before w, apart and in order; what
\* is to be merged lies from rd on, sorted, and starts no earlier.  What the
\* cursors have left between them is spent.
Live == (1 .. w) \cup (rd .. Len(ranges))

LoopInv ==
  at = "merge" =>
    /\ 1 <= w /\ w < rd /\ rd <= Len(ranges) + 1
    /\ \A j, k \in 1 .. w : j < k => ranges[j][2] + 1 < ranges[k][1]
    /\ \A j, k \in rd .. Len(ranges) : j < k => ranges[j][1] <= ranges[k][1]
    /\ \A k \in rd .. Len(ranges) : ranges[w][1] <= ranges[k][1]
    /\ UNION {ranges[k][1] .. ranges[k][2] : k \in Live} = CoveredBy(input)

DoneInv ==
  at = "done" =>
    /\ \A j, k \in DOMAIN ranges : j < k => ranges[j][2] + 1 < ranges[k][1]
    /\ CoveredBy(ranges) = CoveredBy(input)

MergeInv ==
  /\ MergeTypeOK /\ LoopInv /\ DoneInv
  /\ at = "sort" => ranges = input
=============================================================================
