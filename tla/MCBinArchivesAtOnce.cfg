SPECIFICATION Spec
CONSTANTS
  p1 = p1
  p2 = p2
  Procs = {p1, p2}
  bin1 = bin1
  unverified1 = unverified1
  bin2 = bin2
  unknown = unknown
  Names = {bin1, unverified1, bin2, unknown}
  Release <- MCRelease
  Keep = 1
  Absent = Absent
  Cut = Cut
  Torn = Torn
  Whole = Whole
SYMMETRY Processes
CONSTRAINT FewLeft
INVARIANTS
  ArchivesAreComplete
