--------------------------- MODULE BuildInputProofs ---------------------------
(***************************************************************************)
(* What the load of a blocks file promises, for any number of countries    *)
(* and chunks and for files of any length, and the merge of a pool, for    *)
(* any number of rows and any width of address; then what a build promises *)
(* from its archive to the tables, with what is proved of its input.       *)
(***************************************************************************)
EXTENDS BuildInput, CsvInputProofs

USE DEF file, loading

\* A share is at least one byte (chunk_bounds).
LEMMA ShareIsPositive ==
  ASSUME NEW rest \in Nat
  PROVE  Share(rest) \in Nat /\ Share(rest) >= 1
<1>1. Chunks \in Nat \ {0}
  BY BlocksAssumption
<1>2. rest \div Chunks \in Nat
  BY <1>1
<1> QED
  BY <1>2 DEF Share

\* Where the file has no quotes, a newline ends a row (load_blocks).
LEMMA NewlinesEndRows ==
  ASSUME LoadTypeOK, ~quoted
  PROVE  Newlines \cup {length} \subseteq rows
BY DEF LoadTypeOK, Newlines

\* What stands for a file when none is open.
LEMMA NoFile ==
  /\ 1 \in 1 .. MaxLength /\ {1} \subseteq 1 .. 1 /\ 0 \in 0 .. 1
  /\ [x \in {1} |-> Ignored] \in [{1} -> Countries \cup {Malformed, Ignored}]
<1>1. 1 \in 1 .. MaxLength /\ {1} \subseteq 1 .. 1 /\ 0 \in 0 .. 1
  BY BlocksAssumption
<1>2. [x \in {1} |-> Ignored] \in [{1} -> Countries \cup {Malformed, Ignored}]
  OBVIOUS
<1> QED
  BY <1>1, <1>2

\* The invariant holds at the start (load_blocks).
LEMMA NothingLoaded == LoadInit => LoadInv
<1> SUFFICES ASSUME LoadInit PROVE LoadInv
  OBVIOUS
<1>1. LoadTypeOK
  BY NoFile DEF LoadInit, LoadTypeOK
<1>2. SplitInv
  BY DEF LoadInit, SplitInv, SeenRow
<1>3. SerialInv
  BY DEF LoadInit, SerialInv
<1>4. ReadInv
  <2>1. UNION {RowsOf(c) : c \in chunks \ unread} = {}
    BY DEF LoadInit
  <2>2. pools = [cc \in Countries |-> {x \in {} : says[x] = cc}]
    BY DEF LoadInit
  <2>3. skipped = {x \in {} : says[x] = Malformed}
    BY DEF LoadInit
  <2>4. (pc \in {"wait", "start", "split"} => unread = chunks) /\ (pc = "done" => unread = {})
    BY DEF LoadInit
  <2> QED
    BY <2>1, <2>2, <2>3, <2>4 DEF ReadInv
<1>5. ChunksApart
  BY DEF LoadInit, ChunksApart
<1> QED
  BY <1>1, <1>2, <1>3, <1>4, <1>5 DEF LoadInv

\* Steps that read no row keep what is in the pools, as long as no chunk that
\* was read is dropped and none is added that counts as read.
LEMMA PoolsStay ==
  ASSUME ReadInv, UNCHANGED <<file, pools, skipped>>,
         chunks' \ unread' = chunks \ unread,
         pc' \in {"wait", "start", "split"} => unread' = chunks',
         pc' = "done" => unread' = {}
  PROVE  ReadInv'
<1> DEFINE got == UNION {RowsOf(c) : c \in chunks \ unread}
<1>1. \A c : RowsOf(c)' = RowsOf(c)
  BY DEF RowsOf, Whole, Header, Serially
<1>2. {RowsOf(c) : c \in chunks \ unread}' = {RowsOf(c) : c \in chunks \ unread}
  BY <1>1
<1>3. got' = got
  BY <1>2
<1>4. pools = [cc \in Countries |-> {x \in got : says[x] = cc}]
      /\ skipped = {x \in got : says[x] = Malformed}
  BY DEF ReadInv
<1> HIDE DEF got
<1>5. pools' = [cc \in Countries |-> {x \in got' : says'[x] = cc}]
      /\ skipped' = {x \in got' : says'[x] = Malformed}
  BY <1>3, <1>4
<1> QED
  BY <1>5 DEF ReadInv, got

-----------------------------------------------------------------------------
(***************************************************************************)
(* Every step keeps the invariant.                                         *)
(***************************************************************************)
\* Any file may be opened (load_blocks).
LEMMA OpenFileKeeps ==
  ASSUME LoadInv, OpenFile
  PROVE  LoadInv'
<1>1. chunks = {} /\ unread = chunks
  <2>1. ~quoted /\ pc = "wait"
    BY DEF LoadInv, OpenFile, SerialInv
  <2>2. chunks = {}
    BY <2>1 DEF LoadInv, SplitInv
  <2>3. unread = chunks
    BY <2>1 DEF LoadInv, ReadInv
  <2> QED
    BY <2>2, <2>3
<1>2. UNION {RowsOf(c) : c \in chunks \ unread} = {}
  BY <1>1
<1>3. pools = [cc \in Countries |-> {}] /\ skipped = {}
  BY <1>2 DEF LoadInv, ReadInv
<1>4. LoadTypeOK'
  <2>1. /\ pools' \in [Countries -> SUBSET rows'] /\ skipped' \subseteq rows'
        /\ chunks' = {} /\ unread' = {}
    BY <1>1, <1>3 DEF OpenFile
  <2>2. length' \in 1 .. MaxLength /\ s' = 0 /\ s' \in 0 .. length' /\ per' \in Nat
    BY DEF LoadInv, LoadTypeOK, OpenFile
  <2>3. rows' \subseteq 1 .. length' /\ length' \in rows' /\ breaks' \subseteq (1 .. length') \ rows'
    BY DEF OpenFile
  <2> QED
    BY <2>1, <2>2, <2>3 DEF LoadTypeOK, OpenFile
<1>5. SplitInv' /\ SerialInv' /\ ChunksApart'
  BY <1>1 DEF OpenFile, SplitInv, SerialInv, ChunksApart
<1>6. ReadInv'
  <2>1. UNION {RowsOf(c) : c \in chunks \ unread}' = {}
    BY <1>1 DEF OpenFile
  <2> QED
    BY <1>1, <1>3, <2>1 DEF OpenFile, ReadInv
<1> QED
  BY <1>4, <1>5, <1>6 DEF LoadInv

\* The pools are the merges' to work on (load_blocks).
LEMMA PoolsTakenKeeps ==
  ASSUME LoadInv, PoolsTaken
  PROVE  LoadInv'
<1>1. LoadTypeOK'
  BY NoFile DEF LoadTypeOK, PoolsTaken
<1>2. SplitInv' /\ SerialInv' /\ ChunksApart'
  BY DEF PoolsTaken, SplitInv, SerialInv, ChunksApart
<1>3. ReadInv'
  BY DEF PoolsTaken, ReadInv
<1> QED
  BY <1>1, <1>2, <1>3 DEF LoadInv

\* A file with quotes becomes one chunk (load_blocks).
LEMMA ReadSeriallyKeeps ==
  ASSUME LoadInv, ReadSerially
  PROVE  LoadInv'
<1>1. /\ LoadTypeOK /\ ReadInv /\ quoted /\ pc = "start" /\ unread = chunks /\ chunks = {}
      /\ length \in Nat /\ length >= 1
  BY DEF LoadInv, ReadSerially, Serially, SerialInv, ReadInv, LoadTypeOK
<1>2. LoadTypeOK'
  BY <1>1 DEF LoadTypeOK, ReadSerially
<1>3. ReadInv'
  BY <1>1, PoolsStay DEF ReadSerially
<1>4. SplitInv' /\ SerialInv' /\ ChunksApart'
  BY <1>1 DEF ReadSerially, SplitInv, SerialInv, ChunksApart
<1> QED
  BY <1>2, <1>3, <1>4 DEF LoadInv

\* A file of one line has nothing but a header (chunk_bounds).
LEMMA NoRowsKeeps ==
  ASSUME LoadInv, NoRows
  PROVE  LoadInv'
<1>1. /\ LoadTypeOK /\ ReadInv /\ ~quoted /\ pc = "start" /\ unread = chunks /\ chunks = {}
      /\ length \in Nat /\ length >= 1
  BY DEF LoadInv, NoRows, Serially, SplitInv, ReadInv, LoadTypeOK
<1>2. LoadTypeOK'
  BY <1>1 DEF LoadTypeOK, NoRows
<1>3. ReadInv'
  BY <1>1, PoolsStay DEF NoRows
<1>4. rows = {length}
  BY <1>1 DEF NoRows, Newlines, LoadTypeOK
<1>5. SplitInv'
  BY <1>1, <1>4 DEF NoRows, SplitInv, SeenRow, Header
<1>6. SerialInv' /\ ChunksApart'
  BY <1>1 DEF NoRows, SerialInv, ChunksApart
<1> QED
  BY <1>2, <1>3, <1>5, <1>6 DEF LoadInv

\* The split begins behind the header (chunk_bounds).
LEMMA StartSplitKeeps ==
  ASSUME LoadInv, StartSplit
  PROVE  LoadInv'
<1>1. /\ LoadTypeOK /\ ReadInv /\ ~quoted /\ pc = "start" /\ unread = chunks /\ chunks = {}
      /\ length \in Nat /\ length >= 1 /\ rows \subseteq 1 .. length /\ length \in rows
  BY DEF LoadInv, StartSplit, Serially, SplitInv, ReadInv, LoadTypeOK
<1>2. /\ s' \in Newlines /\ \A x \in Newlines : s' <= x
      /\ per' = Share(length - s')
  BY DEF StartSplit
<1>3. s' \in rows /\ s' \in Int /\ 1 <= s' /\ s' <= length /\ s' \in 0 .. length
  <2>1. s' \in rows
    BY <1>1, <1>2, NewlinesEndRows
  <2>2. s' \in 1 .. length
    BY <1>1, <2>1
  <2> QED
    BY <1>1, <2>1, <2>2
<1>4. per' \in Nat /\ per' >= 1
  <2>1. length - s' \in Nat
    <3>1. \A x, y \in Nat : x <= y => y - x \in Nat
      OBVIOUS
    <3>2. s' \in Nat /\ s' <= length /\ length \in Nat
      BY <1>1, <1>3
    <3> QED
      BY <3>1, <3>2, Zenon
  <2>2. Share(length - s') \in Nat /\ Share(length - s') >= 1
    BY <2>1, ShareIsPositive, Zenon
  <2> QED
    BY <1>2, <2>2
<1>5. LoadTypeOK'
  BY <1>1, <1>3, <1>4 DEF LoadTypeOK, StartSplit
<1>6. ReadInv'
  BY <1>1, PoolsStay DEF StartSplit
<1>7. ASSUME NEW x \in rows, x <= s'
      PROVE  Header(x)
  <2>1. x = s'
    BY <1>1, <1>2, <1>3, <1>7 DEF Newlines, LoadTypeOK
  <2>2. \A y \in rows : s' <= y
    BY <1>1, <1>2, <1>3 DEF Newlines, LoadTypeOK
  <2> QED
    BY <1>3, <2>1, <2>2 DEF Header
<1>8. SplitInv'
  <2>1. ~quoted' /\ pc' = "split" /\ chunks' = {} /\ rows' = rows
    BY <1>1 DEF StartSplit
  <2>2. ASSUME NEW x \in rows PROVE Header(x)' = Header(x)
    BY <2>1 DEF Header
  <2> QED
    BY <1>3, <1>4, <1>7, <2>1, <2>2 DEF SplitInv, SeenRow
<1>9. SerialInv' /\ ChunksApart'
  BY <1>1 DEF StartSplit, SerialInv, ChunksApart
<1> QED
  BY <1>5, <1>6, <1>8, <1>9 DEF LoadInv

\* The next chunk begins where the last one ended, at the end of a row, and
\* ends at the end of a later row (chunk_bounds).
LEMMA SplitOneKeeps ==
  ASSUME LoadInv, SplitOne
  PROVE  LoadInv'
<1>1. /\ LoadTypeOK /\ ReadInv /\ ~quoted /\ pc = "split" /\ unread = chunks /\ ChunksApart
      /\ length \in Nat /\ length >= 1 /\ rows \subseteq 1 .. length /\ length \in rows
      /\ s \in rows /\ s \in Nat /\ s < length /\ per \in Nat /\ per >= 1
  BY DEF LoadInv, SplitOne, SerialInv, SplitInv, ReadInv, LoadTypeOK
<1>2. PICK e \in ChunkEnd(IF s + per >= length THEN length ELSE s + per) :
        /\ chunks' = chunks \cup {<<s, e>>}
        /\ unread' = unread \cup {<<s, e>>}
        /\ s' = e
  BY DEF SplitOne
<1>3. e \in rows /\ e \in Nat /\ s < e /\ e <= length
  <2>1. e \in Newlines \cup {length} /\ (IF s + per >= length THEN length ELSE s + per) <= e
    BY <1>2 DEF ChunkEnd
  <2>2. e \in rows
    BY <1>1, <2>1, NewlinesEndRows
  <2>3. e \in Nat /\ e <= length
    BY <1>1, <2>2
  <2> QED
    BY <1>1, <2>1, <2>2, <2>3
<1>4. UNCHANGED <<file, per, pools, skipped, pc>>
  BY DEF SplitOne
<1>5. LoadTypeOK'
  BY <1>1, <1>2, <1>3, <1>4 DEF LoadTypeOK
<1>6. ReadInv'
  BY <1>1, <1>2, <1>4, PoolsStay
<1>7. /\ \A c \in chunks : c[1] \in rows /\ c[2] \in rows /\ c[1] < c[2] /\ c[2] <= s
      /\ \A x \in rows : SeenRow(x) <=> x <= s /\ ~Header(x)
  BY <1>1 DEF LoadInv, SplitInv
<1>8. \A c \in chunks' : c[1] \in rows /\ c[2] \in rows /\ c[1] < c[2] /\ c[2] <= e
  <2>1. ASSUME NEW c \in chunks
        PROVE  c[1] \in rows /\ c[2] \in rows /\ c[1] < c[2] /\ c[2] <= e
    <3>1. c[1] \in rows /\ c[2] \in rows /\ c[1] < c[2] /\ c[2] <= s
      BY <1>7
    <3>2. c[2] \in 1 .. length
      BY <1>1, <3>1
    <3> QED
      BY <1>1, <1>3, <3>1, <3>2
  <2> QED
    BY <1>1, <1>2, <1>3, <2>1
<1>9. ASSUME NEW x \in rows
      PROVE  SeenRow(x)' <=> x <= e /\ ~Header(x)
  <2>1. SeenRow(x)' <=> SeenRow(x) \/ (s < x /\ x <= e)
    <3>1. SeenRow(x)' <=> \E c \in chunks' : c[1] < x /\ x <= c[2]
      BY DEF SeenRow
    <3>2. (\E c \in chunks' : c[1] < x /\ x <= c[2])
          <=> (\E c \in chunks : c[1] < x /\ x <= c[2]) \/ (s < x /\ x <= e)
      <4>1. <<s, e>>[1] = s /\ <<s, e>>[2] = e
        OBVIOUS
      <4> QED
        BY <1>2, <4>1, Zenon
    <3> QED
      BY <3>1, <3>2 DEF SeenRow
  <2>2. x \in Nat
    BY <1>1
  <2>3. s < x => ~Header(x)
    BY <1>1, <2>2 DEF Header
  <2>4. SeenRow(x) <=> x <= s /\ ~Header(x)
    BY <1>7
  <2> QED
    BY <1>1, <1>3, <2>1, <2>2, <2>3, <2>4
<1>10. SplitInv'
  <2>1. ~quoted' /\ pc' = "split" /\ rows' = rows /\ s' = e /\ per' = per
    BY <1>1, <1>2, <1>4
  <2>2. ASSUME NEW x \in rows PROVE Header(x)' = Header(x)
    BY <2>1 DEF Header
  <2> QED
    BY <1>1, <1>3, <1>8, <1>9, <2>1, <2>2 DEF SplitInv
<1>11. SerialInv'
  BY <1>1, <1>4 DEF SerialInv
<1>12. ChunksApart'
  <2>1. ASSUME NEW c \in chunks PROVE c[2] <= s
    BY <1>7
  <2> QED
    BY <1>1, <1>2, <1>3, <2>1 DEF ChunksApart
<1> QED
  BY <1>5, <1>6, <1>10, <1>11, <1>12 DEF LoadInv

\* The split ends with the file (chunk_bounds).
LEMMA SplitDoneKeeps ==
  ASSUME LoadInv, SplitDone
  PROVE  LoadInv'
<1>1. /\ LoadTypeOK /\ ReadInv /\ ~quoted /\ pc = "split" /\ unread = chunks
      /\ s = length /\ length \in Nat /\ rows \subseteq 1 .. length
  BY DEF LoadInv, SplitDone, SerialInv, ReadInv, LoadTypeOK
<1>2. LoadTypeOK'
  BY <1>1 DEF LoadTypeOK, SplitDone
<1>3. ReadInv'
  BY <1>1, PoolsStay DEF SplitDone
<1>4. SplitInv'
  <2>1. ~quoted' /\ pc' = "read" /\ rows' = rows /\ chunks' = chunks /\ s' = s
    BY <1>1 DEF SplitDone
  <2>2. ASSUME NEW x \in rows PROVE Header(x)' = Header(x) /\ SeenRow(x)' = SeenRow(x) /\ x <= s
    BY <1>1, <2>1 DEF Header, SeenRow
  <2> QED
    BY <1>1, <2>1, <2>2 DEF LoadInv, SplitInv
<1>5. SerialInv' /\ ChunksApart'
  BY <1>1 DEF LoadInv, SplitDone, SerialInv, ChunksApart
<1> QED
  BY <1>2, <1>3, <1>4, <1>5 DEF LoadInv

\* A worker adds the rows of its chunk (load_blocks).
LEMMA ReadKeeps ==
  ASSUME LoadInv, NEW c \in unread, Read(c)
  PROVE  LoadInv'
<1> DEFINE got == UNION {RowsOf(d) : d \in chunks \ unread}
<1>1. /\ LoadTypeOK /\ c \in chunks /\ pc = "read" /\ pc' = "read"
      /\ unread' = unread \ {c} /\ chunks' = chunks /\ s' = s /\ per' = per
      /\ UNCHANGED file
  BY DEF LoadInv, Read, LoadTypeOK
<1>2. RowsOf(c) \subseteq rows
  BY DEF RowsOf, Whole
<1>3. LoadTypeOK'
  <2>1. pools' \in [Countries -> SUBSET rows] /\ skipped' \subseteq rows
    BY <1>1, <1>2 DEF Read, LoadTypeOK
  <2> QED
    BY <1>1, <2>1 DEF LoadTypeOK
<1>4. ReadInv'
  <2>1. \A d : RowsOf(d)' = RowsOf(d)
    BY <1>1 DEF RowsOf, Whole, Header, Serially
  <2>2. chunks' \ unread' = (chunks \ unread) \cup {c}
    BY <1>1
  <2>3. {RowsOf(d) : d \in chunks \ unread}' = {RowsOf(d) : d \in chunks \ unread} \cup {RowsOf(c)}
    BY <2>1, <2>2
  <2>4. got' = got \cup RowsOf(c)
    BY <2>3
  <2>5. pools = [cc \in Countries |-> {x \in got : says[x] = cc}]
        /\ skipped = {x \in got : says[x] = Malformed}
    BY DEF LoadInv, ReadInv
  <2> HIDE DEF got
  <2>6. pools' = [cc \in Countries |-> {x \in got' : says'[x] = cc}]
    <3>1. ASSUME NEW cc \in Countries
          PROVE  pools[cc] \cup {x \in RowsOf(c) : says[x] = cc} = {x \in got' : says'[x] = cc}
      BY <1>1, <2>4, <2>5
    <3> QED
      BY <3>1 DEF Read
  <2>7. skipped' = {x \in got' : says'[x] = Malformed}
    BY <1>1, <2>4, <2>5 DEF Read
  <2> QED
    BY <1>1, <2>6, <2>7 DEF ReadInv, got
<1>5. SplitInv'
  <2>1. ASSUME NEW x \in rows PROVE Header(x)' = Header(x) /\ SeenRow(x)' = SeenRow(x)
    BY <1>1 DEF Header, SeenRow
  <2> QED
    BY <1>1, <2>1 DEF LoadInv, SplitInv
<1>6. SerialInv' /\ ChunksApart'
  BY <1>1 DEF LoadInv, SerialInv, ChunksApart
<1> QED
  BY <1>3, <1>4, <1>5, <1>6 DEF LoadInv

\* The load ends when every chunk is read (load_blocks).
LEMMA FinishKeeps ==
  ASSUME LoadInv, Finish
  PROVE  LoadInv'
<1>1. LoadTypeOK' /\ SerialInv' /\ ChunksApart'
  BY DEF LoadInv, Finish, LoadTypeOK, SerialInv, ChunksApart
<1>2. ReadInv'
  BY PoolsStay DEF LoadInv, Finish
<1>3. SplitInv'
  <2>1. ASSUME NEW x \in rows PROVE Header(x)' = Header(x) /\ SeenRow(x)' = SeenRow(x)
    BY DEF Finish, Header, SeenRow
  <2> QED
    BY <2>1 DEF LoadInv, Finish, SplitInv
<1> QED
  BY <1>1, <1>2, <1>3 DEF LoadInv

LEMMA StutterKeeps ==
  ASSUME LoadInv, UNCHANGED loading
  PROVE  LoadInv'
<1>1. LoadTypeOK' /\ SerialInv' /\ ChunksApart'
  BY DEF LoadInv, LoadTypeOK, SerialInv, ChunksApart
<1>2. ReadInv'
  BY PoolsStay DEF LoadInv, ReadInv
<1>3. SplitInv'
  BY DEF LoadInv, SplitInv, SeenRow, Header
<1> QED
  BY <1>1, <1>2, <1>3 DEF LoadInv

-----------------------------------------------------------------------------
(***************************************************************************)
(* The loop of a merge.                                                    *)
(***************************************************************************)
\* What a sequence of intervals is made of.
LEMMA IntervalType ==
  ASSUME NEW q \in Seq(Intervals), NEW k \in DOMAIN q
  PROVE  /\ q[k] \in Intervals
         /\ q[k][1] \in Int /\ q[k][2] \in Int /\ q[k] = <<q[k][1], q[k][2]>>
         /\ 0 <= q[k][1] /\ q[k][1] <= q[k][2] /\ q[k][2] <= Max
<1>1. q[k] \in Intervals
  OBVIOUS
<1> QED
  BY <1>1, RangesAssumption DEF Intervals, Addresses

-----------------------------------------------------------------------------
(***************************************************************************)
(* Every step keeps the invariant.                                         *)
(***************************************************************************)
LEMMA NothingMerged == MergeInit => MergeInv
BY DEF MergeInit, MergeInv, MergeTypeOK, LoopInv, DoneInv

LEMMA TakePoolKeeps ==
  ASSUME MergeInv, TakePool
  PROVE  MergeInv'
<1>1. PICK n \in 0 .. MaxRows : \E rs \in [1 .. n -> Ranges] : input' = rs /\ ranges' = rs
  BY DEF TakePool
<1>2. input' \in [1 .. n -> Ranges] /\ ranges' = input' /\ w' = w /\ rd' = rd /\ at' = at
      /\ at = "sort"
  BY <1>1 DEF TakePool
<1>3. input' \in Seq(Ranges)
  BY <1>2, RangesAssumption
<1>4. ranges' \in Seq(Intervals)
  BY <1>2, <1>3, RangesAssumption
<1> QED
  BY <1>2, <1>3, <1>4 DEF MergeInv, MergeTypeOK, LoopInv, DoneInv

LEMMA EmptyKeeps ==
  ASSUME MergeInv, Empty
  PROVE  MergeInv'
BY DEF MergeInv, MergeTypeOK, LoopInv, DoneInv, Empty, CoveredBy

LEMMA SortKeeps ==
  ASSUME MergeInv, Sort
  PROVE  MergeInv'
<1>1. PICK order \in [DOMAIN ranges -> DOMAIN ranges] :
        /\ \A k \in DOMAIN ranges : \E j \in DOMAIN ranges : order[j] = k
        /\ ranges' = [k \in DOMAIN ranges |-> ranges[order[k]]]
        /\ Sorted(ranges')
  BY DEF Sort
<1>2. /\ ranges \in Seq(Intervals) /\ ranges # <<>> /\ ranges = input
      /\ w' = 1 /\ rd' = 2 /\ at' = "merge" /\ input' = input /\ input \in Seq(Ranges)
  BY DEF Sort, MergeInv, MergeTypeOK
<1>3. DOMAIN ranges = 1 .. Len(ranges) /\ Len(ranges) \in Nat /\ Len(ranges) >= 1
  BY <1>2
<1>4. /\ ranges' \in Seq(Intervals) /\ Len(ranges') = Len(ranges)
      /\ DOMAIN ranges' = 1 .. Len(ranges)
  <2>1. ASSUME NEW k \in 1 .. Len(ranges) PROVE ranges[order[k]] \in Intervals
    <3>1. order[k] \in DOMAIN ranges
      BY <1>3
    <3> QED
      BY <1>2, <3>1, IntervalType
  <2>2. ranges' \in [1 .. Len(ranges) -> Intervals]
    BY <1>1, <1>3, <2>1
  <2> QED
    BY <1>3, <2>2
<1>5. CoveredBy(ranges') = CoveredBy(ranges)
  <2>1. \A j \in DOMAIN ranges : ranges'[j] = ranges[order[j]] /\ order[j] \in DOMAIN ranges
    BY <1>1, <1>3
  <2>2. DOMAIN ranges' = DOMAIN ranges
    BY <1>3, <1>4
  <2>3. {ranges'[k][1] .. ranges'[k][2] : k \in DOMAIN ranges'}
          = {ranges[k][1] .. ranges[k][2] : k \in DOMAIN ranges}
    BY <1>1, <2>1, <2>2
  <2> QED
    BY <2>3 DEF CoveredBy
<1>6. Live' = DOMAIN ranges'
  BY <1>2, <1>3, <1>4 DEF Live
<1>7. \A j, k \in 1 .. Len(ranges) : j < k => ranges'[j][1] <= ranges'[k][1]
  BY <1>1, <1>4 DEF Sorted
<1>8. MergeTypeOK' /\ DoneInv'
  BY <1>2, <1>4 DEF MergeTypeOK, DoneInv
<1>9. LoopInv'
  <2>1. \A j, k \in 1 .. w' : ~(j < k)
    BY <1>2
  <2>2. \A j, k \in rd' .. Len(ranges') : j < k => ranges'[j][1] <= ranges'[k][1]
    BY <1>2, <1>3, <1>4, <1>7
  <2>3. \A k \in rd' .. Len(ranges') : ranges'[w'][1] <= ranges'[k][1]
    BY <1>2, <1>3, <1>4, <1>7
  <2>4. UNION {ranges'[k][1] .. ranges'[k][2] : k \in Live'} = CoveredBy(input)'
    BY <1>2, <1>5, <1>6 DEF CoveredBy
  <2> QED
    BY <1>2, <1>3, <1>4, <2>1, <2>2, <2>3, <2>4 DEF LoopInv
<1> QED
  BY <1>2, <1>8, <1>9 DEF MergeInv

\* What the loop may assume at an iteration.
LEMMA AtLoop ==
  ASSUME MergeInv, at = "merge"
  PROVE  /\ ranges \in Seq(Intervals) /\ DOMAIN ranges = 1 .. Len(ranges)
         /\ Len(ranges) \in Nat /\ w \in Nat /\ rd \in Nat
         /\ 1 <= w /\ w < rd /\ rd <= Len(ranges) + 1
         /\ \A k \in 1 .. Len(ranges) :
              /\ ranges[k] = <<ranges[k][1], ranges[k][2]>> /\ ranges[k] \in Intervals
              /\ ranges[k][1] \in Int /\ ranges[k][2] \in Int
              /\ 0 <= ranges[k][1] /\ ranges[k][1] <= ranges[k][2] /\ ranges[k][2] <= Max
<1>1. ranges \in Seq(Intervals) /\ w \in Nat /\ rd \in Nat
  BY DEF MergeInv, MergeTypeOK
<1>2. 1 <= w /\ w < rd /\ rd <= Len(ranges) + 1
  BY DEF MergeInv, LoopInv
<1> QED
  BY <1>1, <1>2, IntervalType

LEMMA JoinKeeps ==
  ASSUME MergeInv, Join
  PROVE  MergeInv'
<1> DEFINE e == LaterEnd(ranges[w][2], ranges[rd][2])
<1>1. /\ at = "merge" /\ rd <= Len(ranges) /\ at' = at /\ w' = w /\ rd' = rd + 1
      /\ input' = input
      /\ ranges' = [ranges EXCEPT ![w] = <<ranges[w][1], e>>]
  BY DEF Join
<1>2. /\ w \in 1 .. Len(ranges) /\ rd \in 1 .. Len(ranges) /\ w < rd
      /\ DOMAIN ranges = 1 .. Len(ranges) /\ Len(ranges) \in Nat /\ ranges \in Seq(Intervals)
  BY <1>1, AtLoop
<1>3. ranges[w][1] <= ranges[rd][1] /\ ranges[rd][1] <= ranges[w][2] + 1
  <2>1. ranges[w][1] <= ranges[rd][1]
    BY <1>1, <1>2 DEF MergeInv, LoopInv
  <2>2. ranges[rd][1] <= Inc(ranges[w][2])
    BY DEF Join, Joins
  <2>3. ranges[rd][1] \in Int /\ ranges[w][2] \in Int
    BY <1>1, <1>2, AtLoop
  <2> QED
    BY <2>1, <2>2, <2>3, RangesAssumption DEF Inc
<1>4. /\ e \in Int /\ ranges[w][1] <= e /\ e <= Max /\ ranges[w][2] <= e /\ ranges[rd][2] <= e
      /\ e = ranges[w][2] \/ e = ranges[rd][2]
  BY <1>1, <1>2, AtLoop DEF LaterEnd
<1> HIDE DEF e
<1>5. <<ranges[w][1], e>> \in Intervals
  BY <1>1, <1>2, <1>4, AtLoop, RangesAssumption DEF Intervals, Addresses
<1>6. /\ ranges' \in Seq(Intervals) /\ Len(ranges') = Len(ranges)
      /\ ranges'[w] = <<ranges[w][1], e>>
      /\ \A k \in 1 .. Len(ranges) : k # w => ranges'[k] = ranges[k]
  BY <1>1, <1>2, <1>5
<1>7. ranges'[w][1] = ranges[w][1] /\ ranges'[w][2] = e
  BY <1>6
<1>8. MergeTypeOK' /\ DoneInv'
  BY <1>1, <1>2, <1>6 DEF MergeInv, MergeTypeOK, DoneInv
<1>9. \A j, k \in 1 .. w' : j < k => ranges'[j][2] + 1 < ranges'[k][1]
  <2> SUFFICES ASSUME NEW j \in 1 .. w, NEW k \in 1 .. w, j < k
               PROVE  ranges'[j][2] + 1 < ranges'[k][1]
    BY <1>1
  <2>1. j # w /\ ranges'[j] = ranges[j] /\ ranges'[k][1] = ranges[k][1]
    BY <1>2, <1>6, <1>7
  <2> QED
    BY <1>1, <2>1 DEF MergeInv, LoopInv
<1>10. \A j, k \in rd' .. Len(ranges') : j < k => ranges'[j][1] <= ranges'[k][1]
  <2>1. \A k \in rd + 1 .. Len(ranges) : ranges'[k] = ranges[k] /\ k \in rd .. Len(ranges)
    BY <1>2, <1>6
  <2> QED
    BY <1>1, <1>6, <2>1 DEF MergeInv, LoopInv
<1>11. \A k \in rd' .. Len(ranges') : ranges'[w'][1] <= ranges'[k][1]
  <2>1. \A k \in rd + 1 .. Len(ranges) : ranges'[k] = ranges[k] /\ k \in rd .. Len(ranges)
    BY <1>2, <1>6
  <2> QED
    BY <1>1, <1>6, <1>7, <2>1 DEF MergeInv, LoopInv
<1>12. UNION {ranges'[k][1] .. ranges'[k][2] : k \in Live'}
        = UNION {ranges[k][1] .. ranges[k][2] : k \in Live}
  <2>1. Live' = Live \ {rd} /\ w \in Live' /\ rd \in Live /\ rd # w
    BY <1>1, <1>2, <1>6 DEF Live
  <2>2. \A k \in Live' : k # w => ranges'[k] = ranges[k]
    <3>1. Live \subseteq 1 .. Len(ranges)
      BY <1>2 DEF Live
    <3> QED
      BY <1>6, <2>1, <3>1
  <2>3. ranges'[w][1] .. ranges'[w][2]
          = (ranges[w][1] .. ranges[w][2]) \cup (ranges[rd][1] .. ranges[rd][2])
    <3>1. /\ ranges[w][1] \in Int /\ ranges[w][2] \in Int
          /\ ranges[rd][1] \in Int /\ ranges[rd][2] \in Int
      BY <1>1, <1>2, AtLoop
    <3>2. ranges[w][1] .. e = (ranges[w][1] .. ranges[w][2]) \cup (ranges[rd][1] .. ranges[rd][2])
      BY <1>3, <1>4, <3>1
    <3> QED
      BY <1>7, <3>2
  <2> QED
    BY <2>1, <2>2, <2>3
<1>13. UNION {ranges'[k][1] .. ranges'[k][2] : k \in Live'} = CoveredBy(input)'
  BY <1>1, <1>12 DEF MergeInv, LoopInv
<1>14. 1 <= w' /\ w' < rd' /\ rd' <= Len(ranges') + 1
  BY <1>1, <1>2, <1>6
<1>15. LoopInv'
  BY <1>9, <1>10, <1>11, <1>13, <1>14 DEF LoopInv
<1> QED
  BY <1>1, <1>8, <1>15 DEF MergeInv

LEMMA OpenRunKeeps ==
  ASSUME MergeInv, OpenRun
  PROVE  MergeInv'
<1>1. /\ at = "merge" /\ rd <= Len(ranges) /\ at' = at /\ w' = w + 1 /\ rd' = rd + 1
      /\ input' = input
      /\ ranges' = [ranges EXCEPT ![w + 1] = ranges[rd]]
  BY DEF OpenRun
<1>2. /\ w \in 1 .. Len(ranges) /\ rd \in 1 .. Len(ranges) /\ w + 1 <= rd
      /\ w + 1 \in 1 .. Len(ranges)
      /\ DOMAIN ranges = 1 .. Len(ranges) /\ Len(ranges) \in Nat /\ ranges \in Seq(Intervals)
  BY <1>1, AtLoop
<1>3. ranges[w][1] <= ranges[rd][1] /\ ranges[w][2] + 1 < ranges[rd][1]
  <2>1. ranges[w][1] <= ranges[rd][1]
    BY <1>1, <1>2 DEF MergeInv, LoopInv
  <2>2. ~(ranges[rd][1] <= Inc(ranges[w][2]))
    BY DEF OpenRun, Joins
  <2>3. /\ ranges[rd][1] \in Int /\ ranges[w][2] \in Int
        /\ ranges[rd][1] <= ranges[rd][2] /\ ranges[rd][2] <= Max /\ ranges[rd][2] \in Int
    BY <1>1, <1>2, AtLoop
  <2> QED
    BY <2>1, <2>2, <2>3, RangesAssumption DEF Inc
<1>4. ranges[rd] \in Intervals
  BY <1>1, <1>2, AtLoop
<1>5. /\ ranges' \in Seq(Intervals) /\ Len(ranges') = Len(ranges)
      /\ ranges'[w + 1] = ranges[rd]
      /\ \A k \in 1 .. Len(ranges) : k # w + 1 => ranges'[k] = ranges[k]
  BY <1>1, <1>2, <1>4
<1>6. MergeTypeOK' /\ DoneInv'
  BY <1>1, <1>2, <1>5 DEF MergeInv, MergeTypeOK, DoneInv
<1>7. \A k \in rd + 1 .. Len(ranges) : ranges'[k] = ranges[k] /\ k \in rd .. Len(ranges)
  BY <1>2, <1>5
<1>8. \A k \in 1 .. w : ranges'[k] = ranges[k] /\ k \in 1 .. Len(ranges)
  BY <1>2, <1>5
<1>9. \A j, k \in 1 .. w' : j < k => ranges'[j][2] + 1 < ranges'[k][1]
  <2> SUFFICES ASSUME NEW j \in 1 .. w + 1, NEW k \in 1 .. w + 1, j < k
               PROVE  ranges'[j][2] + 1 < ranges'[k][1]
    BY <1>1
  <2>1. CASE k # w + 1
    <3>1. j \in 1 .. w /\ k \in 1 .. w
      BY <1>2, <2>1
    <3>2. ranges[j][2] + 1 < ranges[k][1]
      BY <1>1, <3>1 DEF MergeInv, LoopInv
    <3> QED
      BY <1>8, <3>1, <3>2
  <2>2. CASE k = w + 1 /\ j = w
    BY <1>2, <1>3, <1>5, <1>8, <2>2
  <2>3. CASE k = w + 1 /\ j # w
    <3>1. j \in 1 .. w /\ j < w
      BY <1>2, <2>3
    <3>2. ranges[j][2] + 1 < ranges[w][1]
      BY <1>1, <1>2, <3>1 DEF MergeInv, LoopInv
    <3>3. ranges[j][2] \in Int /\ ranges[w][1] \in Int /\ ranges[rd][1] \in Int
      BY <1>1, <1>2, <3>1, AtLoop
    <3>4. ranges'[j][2] = ranges[j][2] /\ ranges'[k][1] = ranges[rd][1]
      BY <1>5, <1>8, <2>3, <3>1
    <3> QED
      BY <1>3, <3>2, <3>3, <3>4
  <2> QED
    BY <2>1, <2>2, <2>3
<1>10. \A j, k \in rd' .. Len(ranges') : j < k => ranges'[j][1] <= ranges'[k][1]
  BY <1>1, <1>5, <1>7 DEF MergeInv, LoopInv
<1>11. \A k \in rd' .. Len(ranges') : ranges'[w'][1] <= ranges'[k][1]
  <2> SUFFICES ASSUME NEW k \in rd + 1 .. Len(ranges) PROVE ranges[rd][1] <= ranges'[k][1]
    BY <1>1, <1>5
  <2>1. rd \in rd .. Len(ranges) /\ rd < k
    BY <1>2
  <2> QED
    BY <1>1, <1>7, <2>1 DEF MergeInv, LoopInv
<1>12. UNION {ranges'[k][1] .. ranges'[k][2] : k \in Live'}
        = UNION {ranges[k][1] .. ranges[k][2] : k \in Live}
  <2>1. Live' = (1 .. w) \cup {w + 1} \cup (rd + 1 .. Len(ranges))
    BY <1>1, <1>2, <1>5 DEF Live
  <2>2. Live = (1 .. w) \cup {rd} \cup (rd + 1 .. Len(ranges))
    BY <1>2 DEF Live
  <2> QED
    BY <1>5, <1>7, <1>8, <2>1, <2>2
<1>13. UNION {ranges'[k][1] .. ranges'[k][2] : k \in Live'} = CoveredBy(input)'
  BY <1>1, <1>12 DEF MergeInv, LoopInv
<1>14. 1 <= w' /\ w' < rd' /\ rd' <= Len(ranges') + 1
  BY <1>1, <1>2, <1>5
<1>15. LoopInv'
  BY <1>9, <1>10, <1>11, <1>13, <1>14 DEF LoopInv
<1> QED
  BY <1>1, <1>6, <1>15 DEF MergeInv

LEMMA TruncateKeeps ==
  ASSUME MergeInv, Truncate
  PROVE  MergeInv'
<1>1. /\ at = "merge" /\ rd > Len(ranges) /\ at' = "done" /\ w' = w /\ rd' = rd
      /\ input' = input /\ ranges' = SubSeq(ranges, 1, w)
  BY DEF Truncate, Kept
<1>2. /\ w \in 1 .. Len(ranges) /\ rd = Len(ranges) + 1 /\ ranges \in Seq(Intervals)
      /\ Len(ranges) \in Nat
  BY <1>1, AtLoop
<1>3. /\ ranges' \in Seq(Intervals) /\ DOMAIN ranges' = 1 .. w
      /\ \A k \in 1 .. w : ranges'[k] = ranges[k]
  BY <1>1, <1>2
<1>4. Live = 1 .. w
  BY <1>2 DEF Live
<1>5. CoveredBy(ranges') = CoveredBy(input')
  <2>1. {ranges'[k][1] .. ranges'[k][2] : k \in DOMAIN ranges'}
          = {ranges[k][1] .. ranges[k][2] : k \in Live}
    BY <1>3, <1>4
  <2>2. UNION {ranges[k][1] .. ranges[k][2] : k \in Live} = CoveredBy(input)
    BY <1>1 DEF MergeInv, LoopInv
  <2>3. CoveredBy(ranges') = UNION {ranges'[k][1] .. ranges'[k][2] : k \in DOMAIN ranges'}
    BY DEF CoveredBy
  <2> QED
    BY <1>1, <2>1, <2>2, <2>3
<1>6. \A j, k \in DOMAIN ranges' : j < k => ranges'[j][2] + 1 < ranges'[k][1]
  BY <1>1, <1>3 DEF MergeInv, LoopInv
<1> QED
  BY <1>1, <1>3, <1>5, <1>6 DEF MergeInv, MergeTypeOK, LoopInv, DoneInv

-----------------------------------------------------------------------------
(***************************************************************************)
(* The invariance.                                                         *)
(***************************************************************************)
LEMMA LoadingKeeps ==
  ASSUME LoadInv, [LoadNext]_loading
  PROVE  LoadInv'
<1>0. CASE OpenFile
  BY <1>0, OpenFileKeeps
<1>1. CASE ReadSerially
  BY <1>1, ReadSeriallyKeeps
<1>2. CASE NoRows
  BY <1>2, NoRowsKeeps
<1>3. CASE StartSplit
  BY <1>3, StartSplitKeeps
<1>4. CASE SplitOne
  BY <1>4, SplitOneKeeps
<1>5. CASE SplitDone
  BY <1>5, SplitDoneKeeps
<1>6. ASSUME NEW c \in unread, Read(c) PROVE LoadInv'
  BY <1>6, ReadKeeps
<1>7. CASE Finish
  BY <1>7, FinishKeeps
<1>8. CASE PoolsTaken
  BY <1>8, PoolsTakenKeeps
<1>9. CASE UNCHANGED loading
  BY <1>9, StutterKeeps
<1> QED
  BY <1>0, <1>1, <1>2, <1>3, <1>4, <1>5, <1>6, <1>7, <1>8, <1>9 DEF LoadNext

LEMMA MergingKeeps ==
  ASSUME MergeInv, [MergeNext]_merging
  PROVE  MergeInv'
<1>1. CASE MergeNext
  BY <1>1, TakePoolKeeps, EmptyKeeps, SortKeeps, JoinKeeps, OpenRunKeeps, TruncateKeeps
     DEF MergeNext
<1>2. CASE UNCHANGED merging
  <2>1. /\ input' = input /\ ranges' = ranges /\ w' = w /\ rd' = rd /\ at' = at
        /\ Live' = Live /\ CoveredBy(input)' = CoveredBy(input)
        /\ CoveredBy(ranges)' = CoveredBy(ranges)
    BY <1>2 DEF merging, Live
  <2>2. MergeTypeOK' /\ (at = "sort" => ranges = input)'
    BY <2>1 DEF MergeInv, MergeTypeOK
  <2>3. LoopInv'
    BY <2>1 DEF MergeInv, LoopInv
  <2>4. DoneInv'
    BY <2>1 DEF MergeInv, DoneInv
  <2> QED
    BY <2>2, <2>3, <2>4 DEF MergeInv
<1> QED
  BY <1>1, <1>2

\* The chunks found reach from the header to s, the pools hold the rows of the
\* chunks read, and the loop of a merge covers what the rows of its pool cover
\* (load_blocks, merge_ranges_in_place).
THEOREM TablesInvariance == TablesSpec => []TablesInv
<1>1. TablesInit => TablesInv
  BY NothingLoaded, NothingMerged DEF TablesInit, TablesInv
<1>2. TablesInv /\ [TablesNext]_tables => TablesInv'
  <2> SUFFICES ASSUME TablesInv, [TablesNext]_tables PROVE TablesInv'
    OBVIOUS
  <2>1. [LoadNext]_loading /\ [MergeNext]_merging
    BY DEF TablesNext, Loading, Merging, tables
  <2> QED
    BY <2>1, LoadingKeeps, MergingKeeps DEF TablesInv
<1> QED
  BY <1>1, <1>2, PTL DEF TablesSpec

-----------------------------------------------------------------------------
\* However the file is split and whichever worker is first, every row but the
\* header is in the pool of its country or counted as malformed (load_blocks).
THEOREM NoRowLost == TablesSpec => []EveryRowCounts
<1>1. LoadInv => EveryRowCounts
  <2> SUFFICES ASSUME LoadInv, pc = "done"
               PROVE  /\ pools = [cc \in Countries |-> {x \in rows : says[x] = cc /\ ~Header(x)}]
                      /\ skipped = {x \in rows : says[x] = Malformed /\ ~Header(x)}
    BY DEF EveryRowCounts
  <2> DEFINE got == UNION {RowsOf(c) : c \in chunks \ unread}
  <2>1. unread = {} /\ rows \subseteq 1 .. length /\ length \in Nat
    BY DEF LoadInv, ReadInv, LoadTypeOK
  <2>2. ASSUME NEW x
        PROVE  x \in got <=> \E c \in chunks : x \in RowsOf(c)
    BY <2>1
  <2>3. CASE quoted
    <3>1. chunks = {<<0, length>>}
      BY <2>3 DEF LoadInv, SerialInv
    <3>2. RowsOf(<<0, length>>) = {x \in rows : ~Header(x)}
      <4>1. ASSUME NEW x \in rows PROVE 0 < x /\ x <= length
        <5>1. x \in 1 .. length
          BY <2>1
        <5> QED
          BY <2>1, <5>1
      <4>2. Whole(<<0, length>>) = rows
        BY <4>1 DEF Whole
      <4> QED
        BY <2>3, <4>2 DEF RowsOf, Serially
    <3>3. got = {x \in rows : ~Header(x)}
      BY <2>2, <3>1, <3>2
    <3> HIDE DEF got
    <3>4. pools = [cc \in Countries |-> {x \in got : says[x] = cc}]
          /\ skipped = {x \in got : says[x] = Malformed}
      BY DEF LoadInv, ReadInv, got
    <3> QED
      BY <3>3, <3>4
  <2>4. CASE ~quoted
    <3>1. \A x \in rows : SeenRow(x) <=> ~Header(x)
      BY <2>4 DEF LoadInv, SplitInv
    <3>2. \A c \in chunks : c[1] \in rows
      BY <2>4 DEF LoadInv, SplitInv
    <3>3. ASSUME NEW c \in chunks, NEW x
          PROVE  x \in RowsOf(c) <=> x \in rows /\ c[1] < x /\ x <= c[2]
      <4>1. c[1] \in rows /\ c[1] \in 1 .. length
        BY <2>1, <3>2
      <4>2. c[1] <= c[1] /\ c[1] # 0
        BY <2>1, <4>1
      <4>3. RowsOf(c) = Whole(c)
        BY <2>4 DEF RowsOf, Serially
      <4> QED
        BY <4>1, <4>2, <4>3 DEF Whole
    <3>4. ASSUME NEW x
          PROVE  x \in got <=> x \in rows /\ ~Header(x)
      BY <2>2, <3>1, <3>3 DEF SeenRow
    <3> HIDE DEF got
    <3>5. got = {x \in rows : ~Header(x)}
      BY <3>4
    <3>6. pools = [cc \in Countries |-> {x \in got : says[x] = cc}]
          /\ skipped = {x \in got : says[x] = Malformed}
      BY DEF LoadInv, ReadInv, got
    <3> QED
      BY <3>5, <3>6
  <2> QED
    BY <2>3, <2>4
<1> QED
  BY <1>1, TablesInvariance, PTL DEF TablesInv

\* No chunk is empty, and no two share a byte (chunk_bounds).
THEOREM NoRowTwice == TablesSpec => []ChunksApart
<1>1. LoadInv => ChunksApart
  BY DEF LoadInv
<1> QED
  BY <1>1, TablesInvariance, PTL DEF TablesInv

-----------------------------------------------------------------------------
(***************************************************************************)
(* Intervals that lie apart, in order, are the runs of what they cover.    *)
(***************************************************************************)
LEMMA ApartAreRuns ==
  ASSUME NEW q \in Seq(Intervals),
         \A j, k \in DOMAIN q : j < k => q[j][2] + 1 < q[k][1]
  PROVE  {q[k] : k \in DOMAIN q} = Runs(CoveredBy(q))
<1> DEFINE S == CoveredBy(q)
<1>1. \A k \in DOMAIN q :
        /\ q[k] = <<q[k][1], q[k][2]>> /\ q[k][1] \in Int /\ q[k][2] \in Int
        /\ q[k][1] <= q[k][2] /\ k \in Nat
  BY IntervalType
<1>2. \A x : x \in S <=> \E k \in DOMAIN q : x \in q[k][1] .. q[k][2]
  BY DEF CoveredBy
<1>3. \A k \in DOMAIN q : q[k][1] - 1 \notin S /\ q[k][2] + 1 \notin S
  <2> SUFFICES ASSUME NEW k \in DOMAIN q, NEW j \in DOMAIN q
               PROVE  /\ q[k][1] - 1 \notin q[j][1] .. q[j][2]
                      /\ q[k][2] + 1 \notin q[j][1] .. q[j][2]
    BY <1>2
  <2>1. CASE j < k
    <3>1. q[j][2] + 1 < q[k][1]
      BY <2>1
    <3> QED
      BY <1>1, <3>1
  <2>2. CASE k < j
    <3>1. q[k][2] + 1 < q[j][1]
      BY <2>2
    <3> QED
      BY <1>1, <3>1
  <2>3. CASE j = k
    BY <1>1, <2>3
  <2> QED
    BY <1>1, <2>1, <2>2, <2>3
<1>4. ASSUME NEW k \in DOMAIN q PROVE q[k] \in Runs(S)
  <2>1. q[k][1] .. q[k][2] \subseteq S
    BY <1>2
  <2>2. q[k][1] \in S /\ q[k][2] \in S
    BY <1>1, <2>1
  <2>3. q[k] \in S \X S
    BY <1>1, <2>2
  <2> HIDE DEF S
  <2> QED
    BY <1>1, <1>3, <2>1, <2>3 DEF Runs
<1>5. ASSUME NEW r \in Runs(S) PROVE \E k \in DOMAIN q : r = q[k]
  <2> HIDE DEF S
  <2>1. /\ r \in S \X S /\ r[1] <= r[2] /\ r[1] .. r[2] \subseteq S
        /\ r[1] - 1 \notin S /\ r[2] + 1 \notin S /\ r = <<r[1], r[2]>>
    BY DEF Runs
  <2>2. PICK k \in DOMAIN q : r[1] \in q[k][1] .. q[k][2]
    BY <1>2, <2>1
  <2>3. r[1] \in Int /\ r[2] \in Int
    BY <1>1, <1>2, <2>1
  <2>4. \A x \in q[k][1] .. q[k][2] : x \in S
    BY <1>2
  <2>5. r[1] = q[k][1]
    <3>1. r[1] # q[k][1] => r[1] - 1 \in q[k][1] .. q[k][2]
      BY <1>1, <2>2, <2>3
    <3> QED
      BY <2>1, <2>4, <3>1
  <2>6. ~(r[2] < q[k][2])
    <3>1. r[2] < q[k][2] => r[2] + 1 \in q[k][1] .. q[k][2]
      BY <1>1, <2>1, <2>3, <2>5
    <3> QED
      BY <2>1, <2>4, <3>1
  <2>7. ~(q[k][2] < r[2])
    <3>1. q[k][2] < r[2] => q[k][2] + 1 \in r[1] .. r[2]
      BY <1>1, <2>3, <2>5
    <3> QED
      BY <1>3, <2>1, <3>1
  <2>8. r[2] = q[k][2]
    BY <1>1, <2>3, <2>6, <2>7
  <2> QED
    BY <1>1, <2>1, <2>5, <2>8
<1> QED
  BY <1>4, <1>5

\* The result is the runs of the addresses the rows cover, in order: it does
\* not depend on the order of the rows (merge_ranges_in_place).
THEOREM Merged == TablesSpec => []ResultIsRuns
<1>1. MergeInv => ResultIsRuns
  <2> SUFFICES ASSUME MergeInv, at = "done" PROVE
          /\ {ranges[k] : k \in DOMAIN ranges} = Runs(CoveredBy(input))
          /\ \A j, k \in DOMAIN ranges : j < k => ranges[j][2] < ranges[k][1]
    BY DEF ResultIsRuns
  <2>1. /\ ranges \in Seq(Intervals) /\ CoveredBy(ranges) = CoveredBy(input)
        /\ \A j, k \in DOMAIN ranges : j < k => ranges[j][2] + 1 < ranges[k][1]
    BY DEF MergeInv, MergeTypeOK, DoneInv
  <2>2. {ranges[k] : k \in DOMAIN ranges} = Runs(CoveredBy(input))
    BY <2>1, ApartAreRuns
  <2>3. \A k \in DOMAIN ranges : ranges[k][1] \in Int /\ ranges[k][2] \in Int
    BY <2>1, IntervalType
  <2> QED
    BY <2>1, <2>2, <2>3
<1> QED
  BY <1>1, TablesInvariance, PTL DEF TablesInv

-----------------------------------------------------------------------------
(***************************************************************************)
(* A build, from its archive to the tables.                                *)
(***************************************************************************)
\* A build starts with nothing loaded.
LEMMA TablesStart == TablesInit => TablesInv
BY NothingLoaded, NothingMerged DEF TablesInit, TablesInv

LEMMA TablesKeep ==
  ASSUME TablesInv, [TablesNext]_tables
  PROVE  TablesInv'
<1>1. [LoadNext]_loading /\ [MergeNext]_merging
  BY DEF TablesNext, Loading, Merging, tables
<1> QED
  BY <1>1, LoadingKeeps, MergingKeeps DEF TablesInv

\* Of the index and the locations nothing is left when they are dropped.
LEMMA IndexMadeKeeps ==
  ASSUME InputInv, IndexMade
  PROVE  InputInv'
<1>1. /\ stage = "blocks" /\ stage' = "indexed"
      /\ places' = <<>> /\ legacy' = FALSE /\ row_read' = 1
      /\ country_id' = <<>> /\ names' = {} /\ by_id' = {} /\ by_str' = <<>>
      /\ UNCHANGED <<extraction, row, range, country, tables>>
  BY DEF IndexMade
<1>2. country' = -1 /\ phase' = "handed"
  BY <1>1 DEF InputInv, CountriesInv, RowInv, extraction
<1>3. ExtractionInv'
  BY <1>1, ExtractionQuiet DEF InputInv
<1>4. CountriesTypeOK'
  <2>1. Cardinality({}) = 0
    BY FS_EmptySet
  <2>2. DOMAIN country_id' = {} /\ DOMAIN by_str' = {} /\ Len(places') = 0
    BY <1>1
  <2>3. row_read' \in 1 .. Len(places') + 1 /\ country' \in -1 .. Cardinality(names') - 1
    BY <1>1, <1>2, <2>1, <2>2
  <2>4. /\ DOMAIN country_id' \subseteq Geonames
        /\ \A g \in DOMAIN country_id' : country_id'[g] \in Codes
        /\ \A g \in DOMAIN by_str' : by_str'[g] \in 0 .. Cardinality(names') - 1
        /\ DOMAIN by_str' \subseteq Geonames
    BY <2>2
  <2>5. /\ stage' \in Stages /\ places' \in Locations \cup {<<>>} /\ legacy' \in BOOLEAN
        /\ names' \subseteq Codes /\ by_id' = {}
    BY <1>1, Zenon DEF Stages
  <2>6. range' \in Seq(0 .. 2 ^ Width - 1)
    BY <1>1 DEF InputInv, CountriesInv, CountriesTypeOK
  <2> QED
    BY <2>3, <2>4, <2>5, <2>6, Zenon DEF CountriesTypeOK
<1>5. IndexInv' /\ RowInv'
  BY <1>1, <1>2 DEF IndexInv, RowInv
<1> QED
  BY <1>2, <1>3, <1>4, <1>5 DEF InputInv, CountriesInv

\* The invariants of the parts hold of a build: the extraction's, that of the
\* index and of the row looked up, and that of the load and the merge.
THEOREM Invariance == Spec => []IInv
<1>1. Init => IInv
  BY InputStart, TablesStart DEF Init, IInv
<1>2. IInv /\ [Next]_vars => IInv'
  <2> SUFFICES ASSUME IInv, [Next]_vars PROVE IInv'
    OBVIOUS
  <2>1. CASE InputNext /\ UNCHANGED tables
    BY <2>1, InputKeeps, TablesKeep DEF IInv
  <2>2. CASE IndexMade
    <3>1. UNCHANGED tables
      BY <2>2 DEF IndexMade
    <3> QED
      BY <2>2, <3>1, IndexMadeKeeps, TablesKeep DEF IInv
  <2>3. CASE stage = "indexed" /\ TablesNext /\ UNCHANGED inputs
    BY <2>3, InputQuiet, TablesKeep DEF IInv
  <2>4. CASE UNCHANGED vars
    BY <2>4, InputQuiet, TablesKeep DEF IInv, vars
  <2> QED
    BY <2>1, <2>2, <2>3, <2>4 DEF Next
<1> QED
  BY <1>1, <1>2, PTL DEF Spec

\* A row of a blocks file stands for what its text says, for any geonames,
\* any locations and any width of address (CountryIndex, parse_geoname,
\* cidr_v4_bytes, cidr_v6_bytes).
THEOREM RowsAreAsWritten == Spec => []RowAsWritten
<1>1. IInv => RowAsWritten
  BY WrittenSo DEF IInv, InputInv
<1> QED
  BY <1>1, Invariance, PTL

\* What the build is handed is as the extraction promises (extract_and_validate).
THEOREM InputIsSound ==
  Spec => [](BudgetHolds /\ NoneOverwritten /\ RefusedLeavesNothing /\ HandsOnValid)
<1>1. IInv => BudgetHolds /\ NoneOverwritten /\ RefusedLeavesNothing /\ HandsOnValid
  BY ValidWhenDone, NothingWhenRefused DEF IInv, InputInv, ExtractionInv
<1> QED
  BY <1>1, Invariance, PTL

\* A build loads and merges as its parts do by themselves, whatever comes
\* before, so what is proved of them holds of it (build).
THEOREM LoadsAsSpecified == Spec => TablesSpec
<1>1. Init => TablesInit
  BY DEF Init
<1>2. [Next]_vars => [TablesNext]_tables
  BY DEF Next, IndexMade, vars
<1> QED
  BY <1>1, <1>2, PTL DEF Spec, TablesSpec

\* No row of a build is lost or taken twice, and what it writes are the runs of
\* what its rows cover (load_blocks, merge_ranges_in_place).
THEOREM TablesAreSound == Spec => [](EveryRowCounts /\ ChunksApart /\ ResultIsRuns)
BY LoadsAsSpecified, NoRowLost, NoRowTwice, Merged, PTL
=============================================================================
