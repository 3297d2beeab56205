SPECIFICATION Spec
CONSTANTS
  Proc = {p1, p2, p3}
  NoFile = NoFile
  Timeout = 1
  MaxNow = 2
  MaxCrashes = 2
  Reuse = TRUE
  IoErrors = TRUE
SYMMETRY Symmetry
CHECK_DEADLOCK FALSE
INVARIANTS
  TypeOK
  SafeUnlessStolen
  SafeWithoutDeaths
PROPERTY
  PromiseKept
