SPECIFICATION Spec
CONSTANTS
  Proc = {p1}
  Name = {n1}
  Id = {i1, i2}
  Hash = {h1, h2}
  None = None
  Ops = {"deploy-force", "rollback"}
  Deployed = TRUE
  MaxAttempts = 1
  MaxCommands = 2
  Faults = FALSE
  MaxBuilds = 0
  QuietBuilds = TRUE
SYMMETRY Symmetry
CHECK_DEADLOCK FALSE
PROPERTY
  RollbackKeepsSuperseded
