---------------------------- MODULE CountryRanges ----------------------------
(***************************************************************************)
(* From the blocks file to the table of a country: the rows are loaded     *)
(* into the pools of the countries, and each pool is merged by itself.     *)
(***************************************************************************)
EXTENDS BlockLoad, RangeMerge

tables == <<loading, merging>>

TablesInit == LoadInit /\ MergeInit

Loading == LoadNext /\ UNCHANGED merging

Merging == pc = "handed" /\ MergeNext /\ UNCHANGED loading

TablesNext == Loading \/ Merging

TablesSpec == TablesInit /\ [][TablesNext]_tables

\* What holds of both.
TablesInv == LoadInv /\ MergeInv
=============================================================================
