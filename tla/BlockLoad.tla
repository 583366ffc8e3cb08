------------------------------ MODULE BlockLoad ------------------------------
(***************************************************************************)
(* load_blocks: a blocks file is split at newlines into chunks, the chunks *)
(* are read in parallel, and each row goes to the pool of its country.     *)
(*                                                                         *)
(* A row is named by the offset of its end, which is also where the next   *)
(* one begins; the first row is the header.  What a row says is the        *)
(* country it resolves to, or that it is malformed, or that it names no    *)
(* network.  RangeMerge models what becomes of a pool.                     *)
(***************************************************************************)
EXTENDS Integers

CONSTANTS
  Countries,
  Malformed,   \* wrong number of fields, or not UTF-8
  Ignored,     \* no network, or one that does not parse
  Chunks,      \* threads times CHUNKS_PER_THREAD
  MaxLength    \* bound on the bytes of a file

ASSUME BlocksAssumption ==
  /\ Chunks \in Nat \ {0} /\ MaxLength \in Nat \ {0}
  /\ Malformed \notin Countries /\ Ignored \notin Countries /\ Malformed # Ignored

VARIABLES
  length,      \* bytes of the file
  rows,        \* where its rows end
  breaks,      \* newlines inside quotes
  quoted,      \* there is a quote in the file
  terminated,  \* the last row ends with a newline, as all others do
  says,        \* what each row says
  s, per,      \* where the next chunk begins, and how long it is at least
  chunks,      \* the chunks found
  unread,      \* those no worker has read yet
  pools,       \* the rows of each country
  skipped,     \* the rows counted as malformed
  pc

file == <<length, rows, breaks, quoted, terminated, says>>
loading == <<file, s, per, chunks, unread, pools, skipped, pc>>

LoadTypeOK ==
  /\ length \in 1 .. MaxLength
  /\ rows \subseteq 1 .. length /\ length \in rows
  /\ breaks \subseteq (1 .. length) \ rows
  /\ quoted \in BOOLEAN /\ (breaks # {} => quoted)
  /\ terminated \in BOOLEAN
  /\ says \in [rows -> Countries \cup {Malformed, Ignored}]
  /\ s \in 0 .. length
  /\ per \in Nat
  /\ chunks \subseteq (0 .. length) \X (0 .. length)
  /\ unread \subseteq chunks
  /\ pools \in [Countries -> SUBSET rows]
  /\ skipped \subseteq rows
  /\ pc \in {"wait", "start", "split", "read", "done", "handed"}

\* No file is open.
LoadInit ==
  /\ length = 1 /\ rows = {1} /\ breaks = {} /\ quoted = FALSE /\ terminated = TRUE
  /\ says = [x \in {1} |-> Ignored]
  /\ s = 0 /\ per = 0
  /\ chunks = {} /\ unread = {}
  /\ pools = [cc \in Countries |-> {}]
  /\ skipped = {}
  /\ pc = "wait"

OpenFile ==
  /\ pc = "wait"
  /\ length' \in 1 .. MaxLength
  /\ rows' \in {R \in SUBSET (1 .. length') : length' \in R}
  /\ breaks' \in SUBSET ((1 .. length') \ rows')
  /\ quoted' \in BOOLEAN /\ (breaks' # {} => quoted')
  /\ terminated' \in BOOLEAN
  /\ says' \in [rows' -> Countries \cup {Malformed, Ignored}]
  /\ s' = 0
  /\ pc' = "start"
  /\ UNCHANGED <<per, chunks, unread, pools, skipped>>

\* What was loaded is taken away, and the file closed.
PoolsTaken ==
  /\ pc = "done"
  /\ pc' = "handed"
  /\ length' = 1 /\ rows' = {1} /\ breaks' = {} /\ quoted' = FALSE /\ terminated' = TRUE
  /\ says' = [x \in {1} |-> Ignored]
  /\ s' = 0 /\ per' = 0 /\ chunks' = {} /\ unread' = {}
  /\ pools' = [cc \in Countries |-> {}] /\ skipped' = {}

\* The offsets that follow a newline.
Newlines == breaks \cup (IF terminated THEN rows ELSE rows \ {length})

Header(x) == x \in rows /\ \A y \in rows : x <= y

(***************************************************************************)
(* Splitting: chunk_bounds.                                                *)
(***************************************************************************)
\* Faulty: a file with quotes is split like any other.
SeriallyNever == FALSE

\* A file with quotes is not split.
Serially == quoted

ReadSerially ==
  /\ pc = "start"
  /\ Serially
  /\ chunks' = {<<0, length>>} /\ unread' = {<<0, length>>}
  /\ pc' = "read"
  /\ UNCHANGED <<file, s, per, pools, skipped>>

\* There is not even a whole header line.
NoRows ==
  /\ pc = "start"
  /\ ~Serially
  /\ Newlines = {}
  /\ pc' = "read"
  /\ UNCHANGED <<file, s, per, chunks, unread, pools, skipped>>

\* Faulty: without the one more, a chunk may be empty.
ShareBare(rest) == rest \div Chunks

Share(rest) == rest \div Chunks + 1

StartSplit ==
  /\ pc = "start"
  /\ ~Serially
  /\ \E start \in Newlines :
       /\ \A x \in Newlines : start <= x
       /\ s' = start
       /\ per' = Share(length - start)
  /\ pc' = "split"
  /\ UNCHANGED <<file, chunks, unread, pools, skipped>>

\* The first newline from there on, or the end of the file.
ChunkEnd(from) ==
  {e \in Newlines \cup {length} :
     from <= e /\ \A x \in Newlines \cup {length} : from <= x => e <= x}

SplitOne ==
  /\ pc = "split"
  /\ s < length
  /\ \E e \in ChunkEnd(IF s + per >= length THEN length ELSE s + per) :
       /\ chunks' = chunks \cup {<<s, e>>}
       /\ unread' = unread \cup {<<s, e>>}
       /\ s' = e
  /\ UNCHANGED <<file, per, pools, skipped, pc>>

SplitDone ==
  /\ pc = "split"
  /\ s >= length
  /\ pc' = "read"
  /\ UNCHANGED <<file, s, per, chunks, unread, pools, skipped>>

(***************************************************************************)
(* Reading.                                                                *)
(***************************************************************************)
\* The rows that lie in a chunk whole.
Whole(c) ==
  {x \in rows : /\ c[1] < x /\ x <= c[2]
                /\ c[1] = 0 \/ \E y \in rows : c[1] <= y /\ y < x}

\* Only a serial reader meets the header, and skips it.
RowsOf(c) == IF Serially THEN {x \in Whole(c) : ~Header(x)} ELSE Whole(c)

\* The workers share nothing but a count; their pools are joined at the end.
Read(c) ==
  /\ pc = "read"
  /\ unread' = unread \ {c}
  /\ pools' = [cc \in Countries |-> pools[cc] \cup {x \in RowsOf(c) : says[x] = cc}]
  /\ skipped' = skipped \cup {x \in RowsOf(c) : says[x] = Malformed}
  /\ UNCHANGED <<file, s, per, chunks, pc>>

Finish ==
  /\ pc = "read"
  /\ unread = {}
  /\ pc' = "done"
  /\ UNCHANGED <<file, s, per, chunks, unread, pools, skipped>>

LoadNext ==
  \/ OpenFile \/ ReadSerially \/ NoRows \/ StartSplit \/ SplitOne \/ SplitDone
  \/ \E c \in unread : Read(c)
  \/ Finish \/ PoolsTaken

-----------------------------------------------------------------------------
(***************************************************************************)
(* Properties.                                                             *)
(***************************************************************************)
\* However the file is split and whichever worker is first, every row but the
\* header is in the pool of its country, or counted when it is malformed; and
\* a row of one country is in no other's pool (load_blocks).
EveryRowCounts ==
  pc = "done" =>
    /\ pools = [cc \in Countries |-> {x \in rows : says[x] = cc /\ ~Header(x)}]
    /\ skipped = {x \in rows : says[x] = Malformed /\ ~Header(x)}

\* No row is read twice: the chunks are apart, and none is empty, which the
\* loop would never leave (chunk_bounds).
ChunksApart ==
  /\ \A c \in chunks : c[1] < c[2]
  /\ \A c, d \in chunks : c # d => c[2] <= d[1] \/ d[2] <= c[1]

(***************************************************************************)
(* What the argument rests on.                                             *)
(***************************************************************************)
\* The rows before an offset that a split begins with or a serial reader.
SeenRow(x) == \E c \in chunks : c[1] < x /\ x <= c[2]

\* Between two chunks there is the end of a row; what is split so far reaches
\* from the header's end to s.
SplitInv ==
  ~quoted =>
    /\ pc \in {"wait", "start"} => chunks = {}
    /\ pc = "split" => s \in rows /\ per >= 1
    /\ \A c \in chunks : c[1] \in rows /\ c[2] \in rows /\ c[1] < c[2] /\ c[2] <= s
    /\ \A x \in rows : pc = "split" => (SeenRow(x) <=> x <= s /\ ~Header(x))
    /\ \A x \in rows : pc \in {"read", "done"} => (SeenRow(x) <=> ~Header(x))

SerialInv == quoted => pc \notin {"wait", "split"} /\ chunks = IF pc = "start" THEN {} ELSE {<<0, length>>}

\* What is in the pools are the rows of the chunks read.
ReadInv ==
  LET got == UNION {RowsOf(c) : c \in chunks \ unread} IN
    /\ pools = [cc \in Countries |-> {x \in got : says[x] = cc}]
    /\ skipped = {x \in got : says[x] = Malformed}
    /\ pc \in {"wait", "start", "split"} => unread = chunks
    /\ pc = "done" => unread = {}

LoadInv == LoadTypeOK /\ SplitInv /\ SerialInv /\ ReadInv /\ ChunksApart
=============================================================================
