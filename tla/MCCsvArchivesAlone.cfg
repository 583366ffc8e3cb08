SPECIFICATION FairSpec
CONSTANTS
  Procs = {p1}
  Versions <- ThreeReleases
  Editions <- OneEach
  Keep = 2
  MaxRetries = 3
  Absent = Absent
  Cut = Cut
  Left = Left
  Corrupt = Corrupt
  p1 = p1
  p2 = p2
  a = a
  a2 = a2
  b = b
  c = c
PROPERTIES EveryRunEnds LeavesVouched
