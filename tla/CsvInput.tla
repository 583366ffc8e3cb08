------------------------------- MODULE CsvInput -------------------------------
(***************************************************************************)
(* What a build reads: a fetch extracts an archive and hands the temporary *)
(* directory on, and the build loads the countries from it and looks up    *)
(* the rows of the blocks files.                                           *)
(***************************************************************************)
EXTENDS Extraction, Countries

inputs == <<extraction, countries>>

InputInit == ExtractionInit /\ CountriesInit

\* The directory is the build's now: nothing else is left of the extraction.
DirectoryHanded ==
  /\ phase = "done"
  /\ phase' = "handed"
  /\ archive' = <<>> /\ pos' = 1
  /\ prefix' = None /\ nested' = FALSE /\ ambiguous' = FALSE
  /\ out' = <<>> /\ total' = 0

\* Every column a build reads is there.
Complete == \A f \in Required : archive[out[<<f>>].of].csv = "good"

StartBuild == DirectoryHanded /\ Complete /\ StartLoad

\* The build asks for two columns more than the extraction did.
ColumnMissing ==
  /\ DirectoryHanded
  /\ ~Complete
  /\ stage' = "failed"
  /\ UNCHANGED <<places, legacy, row_read, country_id, names, by_id, by_str, row, range, country>>

InputNext ==
  \/ ExtractionNext /\ UNCHANGED countries
  \/ StartBuild
  \/ ColumnMissing
  \/ phase = "handed" /\ CountriesNext /\ UNCHANGED extraction

\* The build waits for the fetch.
InputInv == ExtractionInv /\ CountriesInv /\ (phase # "handed" => stage = "wait")
=============================================================================
