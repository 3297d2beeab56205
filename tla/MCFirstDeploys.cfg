SPECIFICATION Spec
CONSTANTS
  Proc = {p1, p2}
  Name = {n1}
  Id = {i1, i2}
  Hash = {h1, h2}
  None = None
  Ops = {"deploy"}
  Deployed = FALSE
  MaxAttempts = 1
  MaxCommands = 2
  Faults = FALSE
  MaxBuilds = 0
  QuietBuilds = TRUE
SYMMETRY Symmetry
CHECK_DEADLOCK FALSE
PROPERTY
  ConcurrentRunsKeepIds
