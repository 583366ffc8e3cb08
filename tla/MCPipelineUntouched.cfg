SPECIFICATION Spec
CONSTANTS
  Versions <- TwoReleases
  Keep = 1
  Absent = Absent
INVARIANT
  FailedRunKeepsDatabase
