SPECIFICATION Spec
CONSTANTS
  top = top
  other = other
  locs = locs
  blocks = blocks
  None = None
  Components = {top, other, locs, blocks}
  Required = {locs, blocks}
  MaxBytes = 3
  Archives <- MCArchives
  Geonames <- MCGeonames
  Radix = 2
  MaxDigits = 3
  MaxId = 4
  Continental <- MCContinental
  Iso = {1, 2}
  A1 = 3
  A2 = 4
  O1 = 5
  Locations <- MCLocations
  Width = 2
  Fields <- MCFields
  Countries = {c1, c2}
  c1 = c1
  c2 = c2
  Malformed = Malformed
  Ignored = Ignored
  Chunks = 3
  MaxLength = 5
  Max = 7
  Ranges <- Blocks
  MaxRows = 4
SYMMETRY Symmetry
\* A command that has failed, or has resolved its rows, ends.
CHECK_DEADLOCK FALSE
INVARIANTS
  IInv
  BudgetHolds
  NoneOverwritten
  RefusedLeavesNothing
  HandsOnValid
  RowAsWritten
  EveryRowCounts
  ResultIsRuns
