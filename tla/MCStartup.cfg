SPECIFICATION Spec
CONSTANTS
  Procs = {p1, p2}
  p1 = p1
  p2 = p2
  None = None
SYMMETRY Symmetry
INVARIANTS
  IInv
  NothingLost
  SecretsArePrivate
  FailureIsTold
