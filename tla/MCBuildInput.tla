----------------------------- MODULE MCBuildInput -----------------------------
(***************************************************************************)
(* Archives of up to three entries for two CSV files, under one top-level  *)
(* directory, two, or none, and locations of up to two rows.  Geonames are *)
(* binary, of up to three digits, and numbers go to 4: 101 does not fit,   *)
(* and would be 0 if it wrapped.  A blocks file has up to five bytes, each *)
(* of which may end a row, and is split into three chunks; a pool has up   *)
(* to four ranges that a prefix of three bits can stand for, of one        *)
(* address only at both ends.                                              *)
(***************************************************************************)
EXTENDS BuildInput, TLC

CONSTANTS top, other, locs, blocks

File(p, n) == [path |-> p, dir |-> FALSE, size |-> n, name |-> "good", csv |-> "good"]
Directory(p) == [File(p, 0) EXCEPT !.dir = TRUE]

MCEntries ==
  {File(p, n) : p \in {<<top, locs>>, <<top, blocks>>, <<other, locs>>, <<locs>>, <<blocks>>}, n \in {1, 3}}
    \cup {Directory(<<top>>), Directory(<<top, locs>>), Directory(<<blocks>>)}
    \cup {[File(<<top, locs>>, 1) EXCEPT !.name = n] : n \in {"refused", "unsafe"}}
    \cup {[File(<<top, locs>>, 1) EXCEPT !.csv = c] : c \in {"narrow", "bad"}}
    \cup {File(<<top>>, 1), File(<<top, locs, blocks>>, 1)}

MCArchives == UNION {[1 .. n -> MCEntries] : n \in 0 .. 3}

MCGeonames ==
  {<<>>, <<0>>, <<1>>, <<0, 1>>, <<1, 0>>, <<1, 1>>, <<1, 0, 1>>, <<2>>, <<1, 0, 0, 0>>}

MCContinental == {<<1, 0>>}

OfCountry(g, c) == [geoname |-> g, iso |-> c, continent |-> 1]
OfNone(g, c)    == [geoname |-> g, iso |-> NoCode, continent |-> c]

MCLocations ==
  LET rs == {OfCountry(g, c) : g \in {<<1>>, <<0, 1>>}, c \in {1, 2}}
              \cup {OfCountry(g, 1) : g \in {<<>>, <<0>>, <<2>>, <<1, 0, 1>>}}
              \cup {OfNone(<<1, 0>>, c) : c \in {2, NoCode}}
              \cup {OfNone(<<1, 1>>, 2)}
  IN  UNION {[1 .. n -> rs] : n \in 0 .. 2}

Row(g, h) == [proxy |-> FALSE, sat |-> FALSE, id |-> g, rid |-> h]

MCFields ==
  {Row(g, <<>>) : g \in MCGeonames}
    \cup {Row(<<>>, <<1>>), Row(<<1, 1>>, <<1>>)}
    \cup {[Row(<<1>>, <<>>) EXCEPT !.proxy = p, !.sat = ~p] : p \in BOOLEAN}
    \cup {[Row(<<1>>, <<>>) EXCEPT !.proxy = TRUE, !.sat = TRUE]}
Blocks ==
  {<<k, k>> : k \in {0, 1, 2, 6, 7}} \cup {<<k, k + 1>> : k \in {0, 2, 4, 6}}
    \cup {<<0, 3>>, <<4, 7>>, <<0, 7>>}

Symmetry == Permutations(Countries)
=============================================================================
