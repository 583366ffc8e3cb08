------------------------------ MODULE Countries -------------------------------
(***************************************************************************)
(* Which country a row of a blocks file belongs to, and which addresses it *)
(* covers: load_countries reads the locations, CountryIndex::new makes a   *)
(* dense index of them, and every row is looked up in it.                  *)
(*                                                                         *)
(* A geoname is text.  The index keeps it as a number where it is one in   *)
(* canonical form, and as text where it is not.                            *)
(***************************************************************************)
EXTENDS Integers, Sequences, FiniteSets

CONSTANTS
  Geonames,     \* sequences of digits 0 .. Radix - 1 and of other characters
  Radix,        \* 10
  MaxDigits,    \* 10
  MaxId,        \* u32::MAX: a number of MaxDigits digits may be greater
  Continental,  \* the geonames of Asia and Europe
  Iso,          \* codes of two letters, as numbers in their order
  A1, A2, O1,   \* the other codes, which are greater
  Locations,    \* files: sequences of places
  Width,        \* bits of an address
  Fields        \* what a row of a blocks file has in its other columns

Codes == Iso \cup {A1, A2, O1}

\* A column that does not hold a code.
NoCode == -1

Location ==
  [geoname : Geonames, iso : Codes \cup {NoCode}, continent : Codes \cup {NoCode}]

ASSUME CountriesAssumption ==
  /\ Geonames \subseteq Seq(Int)
  /\ Radix \in Nat \ {0, 1} /\ MaxDigits \in Nat \ {0} /\ MaxId \in Nat
  /\ Continental \subseteq Geonames
  /\ IsFiniteSet(Iso) /\ Iso \subseteq Nat
  /\ {A1, A2, O1} \subseteq Nat /\ A1 < A2 /\ A2 < O1 /\ \A c \in Iso : c < A1
  /\ Locations \subseteq Seq(Location)
  /\ Width \in Nat \ {0}
  /\ Fields \subseteq [proxy : BOOLEAN, sat : BOOLEAN, id : Geonames, rid : Geonames]

VARIABLES
  stage,
  places,        \* the locations
  legacy,
  row_read,           \* the row read next
  country_id,  \* the code of each geoname met
  names,       \* the codes that have a name: the keys of country_name
  by_id,       \* the index: pairs of a number and the position of a code
  by_str,      \* and the position of a code for other geonames
  row,         \* the row of a blocks file looked at
  range,       \* its first and last address
  country      \* the position of its country

countries == <<stage, places, legacy, row_read, country_id, names, by_id, by_str, row, range, country>>

Stages == {"wait", "locations", "index", "blocks", "network", "resolved", "indexed", "failed"}

CountriesTypeOK ==
  /\ stage \in Stages
  /\ places \in Locations \cup {<<>>}
  /\ legacy \in BOOLEAN
  /\ row_read \in 1 .. Len(places) + 1
  /\ DOMAIN country_id \subseteq Geonames /\ \A g \in DOMAIN country_id : country_id[g] \in Codes
  /\ names \subseteq Codes
  /\ \A e \in by_id : e[1] \in 0 .. MaxId /\ e[2] \in 0 .. Cardinality(names) - 1
  /\ DOMAIN by_str \subseteq Geonames /\ \A g \in DOMAIN by_str : by_str[g] \in 0 .. Cardinality(names) - 1
  /\ range \in Seq(0 .. 2 ^ Width - 1)
  /\ country \in -1 .. Cardinality(names) - 1

CountriesInit ==
  /\ stage = "wait"
  /\ places = <<>> /\ legacy = FALSE /\ row_read = 1
  /\ country_id = <<>> /\ names = {}
  /\ by_id = {} /\ by_str = <<>>
  /\ row = <<>> /\ range = <<>> /\ country = -1

Unread == UNCHANGED <<by_id, by_str, row, range, country>>

(***************************************************************************)
(* load_countries.                                                         *)
(***************************************************************************)
StartLoad ==
  /\ stage = "wait"
  /\ places' \in Locations
  /\ legacy' \in BOOLEAN
  /\ stage' = "locations"
  /\ UNCHANGED <<row_read, country_id, names>> /\ Unread

\* A file cannot be read, or a row of the locations is not CSV.
LoadStops ==
  /\ stage \in {"locations", "blocks"}
  /\ stage' = "failed"
  /\ UNCHANGED <<places, legacy, row_read, country_id, names>> /\ Unread

CodeOf(l) ==
  IF l.iso # NoCode THEN l.iso
  ELSE IF l.geoname \in Continental /\ legacy /\ l.continent # NoCode THEN l.continent ELSE O1

ReadLocation ==
  /\ stage = "locations"
  /\ row_read \in DOMAIN places
  /\ LET l == places[row_read] IN
       /\ country_id' = [g \in DOMAIN country_id \cup {l.geoname} |->
                           IF g = l.geoname THEN CodeOf(l) ELSE country_id[g]]
       /\ names' = names \cup {CodeOf(l)}
  /\ row_read' = row_read + 1
  /\ UNCHANGED <<stage, places, legacy>> /\ Unread

\* build adds the three codes that need not be among the locations.
Loaded ==
  /\ stage = "locations"
  /\ row_read \notin DOMAIN places
  /\ names' = names \cup {A1, A2, O1}
  /\ stage' = "index"
  /\ UNCHANGED <<places, legacy, row_read, country_id>> /\ Unread

(***************************************************************************)
(* CountryIndex.                                                           *)
(***************************************************************************)
NoNumber == -1

\* One digit more, if it is one and the number still fits.
Add(v, c, limit) ==
  IF v = NoNumber \/ c \notin 0 .. Radix - 1 \/ v * Radix + c > limit THEN NoNumber
  ELSE v * Radix + c

\* The number of the digits, if there is one that fits.
Number(b, limit) ==
  LET value[k \in 0 .. Len(b)] == IF k = 0 THEN 0 ELSE Add(value[k - 1], b[k], limit)
  IN  value[Len(b)]

\* Faulty: the arithmetic wraps.
ParseGeonameWraps(b) ==
  IF b = <<>> \/ Len(b) > MaxDigits \/ (Len(b) > 1 /\ b[1] = 0) THEN NoNumber
  ELSE LET n == Number(b, Radix ^ MaxDigits) IN
         IF n = NoNumber THEN n ELSE n % (MaxId + 1)

ParseGeoname(b) ==
  IF b = <<>> \/ Len(b) > MaxDigits \/ (Len(b) > 1 /\ b[1] = 0) THEN NoNumber
  ELSE Number(b, MaxId)

\* The position of a code among the keys of country_name, which are sorted.
IndexOf(c) == Cardinality({d \in names : d < c})

IsNumber(g) == ParseGeoname(g) # NoNumber

MakeIndex ==
  /\ stage = "index"
  /\ LET g == DOMAIN country_id IN
       /\ by_id' = {<<ParseGeoname(n), IndexOf(country_id[n])>> : n \in {n \in g : IsNumber(n)}}
       /\ by_str' = [n \in {n \in g : ~IsNumber(n)} |-> IndexOf(country_id[n])]
  /\ stage' = "blocks"
  /\ UNCHANGED <<places, legacy, row_read, country_id, names, row, range, country>>

(***************************************************************************)
(* A row of a blocks file: cidr_v4_bytes or cidr_v6_bytes, then resolve.   *)
(* A network without a prefix has one of Width; one that cannot be parsed  *)
(* is passed over.                                                         *)
(***************************************************************************)
LastAddress == 2 ^ Width - 1

\* The operators of the hardware, bit by bit.
Bit(a, i) == (a \div 2 ^ i) % 2

FromBits(b) ==
  LET low[k \in 0 .. Width] == IF k = 0 THEN 0 ELSE low[k - 1] + b[k - 1] * 2 ^ (k - 1)
  IN  low[Width]

And(a, b) == FromBits([i \in 0 .. Width - 1 |-> IF Bit(a, i) = 1 /\ Bit(b, i) = 1 THEN 1 ELSE 0])
Or(a, b)  == FromBits([i \in 0 .. Width - 1 |-> IF Bit(a, i) = 1 \/ Bit(b, i) = 1 THEN 1 ELSE 0])
Not(a)    == FromBits([i \in 0 .. Width - 1 |-> 1 - Bit(a, i)])

Shifted(a, n) == (a * 2 ^ n) % 2 ^ Width

Mask(p) == IF p = 0 THEN 0 ELSE Shifted(LastAddress, Width - p)

Cidr(a, p) ==
  LET first == And(a, Mask(p)) IN <<first, Or(first, Not(Mask(p)))>>

ReadRow(a, p, f) ==
  /\ stage = "blocks"
  /\ row' = [address |-> a, prefix |-> p, fields |-> f]
  /\ range' = Cidr(a, p)
  /\ stage' = "network"
  /\ UNCHANGED <<places, legacy, row_read, country_id, names, by_id, by_str, country>>

\* The geoname a row goes by.
Key(f) == IF f.id # <<>> THEN f.id ELSE f.rid

\* Of entries with one number the search may find any.
Positions(f) ==
  IF f.proxy THEN {IndexOf(A1)}
  ELSE IF f.sat THEN {IndexOf(A2)}
  ELSE IF Key(f) = <<>> THEN {IndexOf(O1)}
  ELSE IF IsNumber(Key(f))
    THEN LET found == {e \in by_id : e[1] = ParseGeoname(Key(f))} IN
           IF found = {} THEN {IndexOf(O1)} ELSE {e[2] : e \in found}
    ELSE IF Key(f) \in DOMAIN by_str THEN {by_str[Key(f)]} ELSE {IndexOf(O1)}

Resolve ==
  /\ stage = "network"
  /\ country' \in Positions(row.fields)
  /\ stage' = "resolved"
  /\ UNCHANGED <<places, legacy, row_read, country_id, names, by_id, by_str, row, range>>

RowDone ==
  /\ stage = "resolved"
  /\ stage' = "blocks"
  /\ row' = <<>> /\ range' = <<>> /\ country' = -1
  /\ UNCHANGED <<places, legacy, row_read, country_id, names, by_id, by_str>>

CountriesNext ==
  \/ StartLoad \/ LoadStops \/ ReadLocation \/ Loaded \/ MakeIndex
  \/ \E a \in 0 .. LastAddress, p \in 0 .. Width, f \in Fields : ReadRow(a, p, f)
  \/ Resolve \/ RowDone

-----------------------------------------------------------------------------
(***************************************************************************)
(* Properties.                                                             *)
(***************************************************************************)
\* resolve_country_code, which the tests keep for comparison.
ResolvedCode(f) ==
  IF f.proxy THEN A1
  ELSE IF f.sat THEN A2
  ELSE IF Key(f) # <<>> /\ Key(f) \in DOMAIN country_id THEN country_id[Key(f)] ELSE O1

\* A row stands for what its text says.  Its country is that which a search for
\* the text of its geoname finds, though the index holds numbers; its addresses
\* are those that have the first bits of its network in common with it, for no
\* bits too (CountryIndex, cidr_v4_bytes, cidr_v6_bytes).
RowAsWritten ==
  /\ stage = "resolved" =>
       country = IndexOf(ResolvedCode(row.fields)) /\ ResolvedCode(row.fields) \in names
  /\ stage = "network" =>
       range[1] .. range[2] =
         {a \in 0 .. LastAddress :
            a \div 2 ^ (Width - row.prefix) = row.address \div 2 ^ (Width - row.prefix)}

(***************************************************************************)
(* What the argument rests on.                                             *)
(***************************************************************************)
\* Every code that is asked for has a name, and the index is of the locations.
IndexInv ==
  /\ \A g \in DOMAIN country_id : country_id[g] \in names
  /\ stage \in {"index", "blocks", "network", "resolved"} => {A1, A2, O1} \subseteq names
  /\ IF stage \in {"blocks", "network", "resolved"}
       THEN /\ by_id = {<<ParseGeoname(n), IndexOf(country_id[n])>> :
                         n \in {n \in DOMAIN country_id : IsNumber(n)}}
            /\ by_str = [n \in {n \in DOMAIN country_id : ~IsNumber(n)} |->
                          IndexOf(country_id[n])]
       ELSE stage # "failed" => by_id = {} /\ by_str = <<>>

\* The row looked at, of the locations and of the blocks.
RowInv ==
  /\ stage = "wait" => row_read = 1
  /\ stage \in {"network", "resolved"} =>
       row \in [address : 0 .. LastAddress, prefix : 0 .. Width, fields : Fields]
  /\ stage = "network" => range = Cidr(row.address, row.prefix)
  /\ IF stage = "resolved" THEN country \in Positions(row.fields) ELSE country = -1

CountriesInv == CountriesTypeOK /\ IndexInv /\ RowInv
=============================================================================
