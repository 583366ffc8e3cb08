SPECIFICATION Spec
CONSTANTS
  Versions <- TwoReleases
  Keep = 1
  Absent = Absent
INVARIANTS
  IInv
  Secured
  BuiltIsFetched
  EveryFlagCounts
