SPECIFICATION Spec
CONSTANTS
  Procs = {p1, p2}
  Versions <- TwoReleases
  Editions <- Reissued
  Keep = 1
  MaxRetries = 0
  Absent = Absent
  Cut = Cut
  Left = Left
  Corrupt = Corrupt
  p1 = p1
  p2 = p2
  a = a
  a2 = a2
  b = b
  c = c
SYMMETRY Processes
CONSTRAINT FewLeft
INVARIANTS IInv Published
PROPERTIES NewestKept StoreSpec
