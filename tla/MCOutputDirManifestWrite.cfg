SPECIFICATION Spec
CONSTANTS
  v1 = v1
  v2 = v2
  default1 = default1
  legacy1 = legacy1
  default2 = default2
  a = a
  b = b
  c = c
  d = d
  sums = sums
  Absent = Absent
  Cut = Cut
  Files <- MCFiles
  Blobs = {a, b, c, d}
  Versions = {v1}
  Sources = {default1, legacy1}
  VersionOf <- MCVersionOf
  Content <- MCContent
  Unowned = {}
  UnownedBlake3 = {}
  MaxFailed = 1
CONSTRAINT FewFail
PROPERTIES
  FailedManifestWriteKeepsPrevious
