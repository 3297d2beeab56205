SPECIFICATION Spec
CONSTANTS
  Proc = {p1, p2, p3}
  NoFile = NoFile
  Timeout = 1
  MaxNow = 1
  MaxCrashes = 1
  Reuse = FALSE
  IoErrors = FALSE
SYMMETRY Symmetry
CHECK_DEADLOCK FALSE
PROPERTY
  LoserGetsEnoent
