------------------------------ MODULE BuildInput ------------------------------
(***************************************************************************)
(* A build from its archive to the tables: the archive is extracted, the   *)
(* countries are loaded and indexed, and then the blocks file is loaded    *)
(* into pools and a pool merged.                                           *)
(***************************************************************************)
EXTENDS CsvInput, CountryRanges

vars == <<inputs, tables>>

Init == InputInit /\ TablesInit

\* The index is made, and the locations are dropped.  It is asked for every
\* row that is loaded; what country it gives is, to the load, the row's.
IndexMade ==
  /\ stage = "blocks"
  /\ stage' = "indexed"
  /\ places' = <<>> /\ legacy' = FALSE /\ row_read' = 1
  /\ country_id' = <<>> /\ names' = {}
  /\ by_id' = {} /\ by_str' = <<>>
  /\ UNCHANGED <<extraction, row, range, country, tables>>

Next ==
  \/ InputNext /\ UNCHANGED tables
  \/ IndexMade
  \/ stage = "indexed" /\ TablesNext /\ UNCHANGED inputs

Spec == Init /\ [][Next]_vars

\* What holds of the parts.
IInv == InputInv /\ TablesInv
=============================================================================
