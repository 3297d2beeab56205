SPECIFICATION Spec
CONSTANTS
  Proc = {p1, p2}
  Name = {n1, n2}
  Id = {i1, i2, i3, i4}
  Hash = {h1, h2}
  None = None
  Ops = {"deploy", "deploy-if-changed", "deploy-force", "deploy-upgrade", "upgrade", "upgrade-if-changed", "rollback", "migrate"}
  Deployed = TRUE
  MaxAttempts = 1
  MaxCommands = 3
  Faults = TRUE
  MaxBuilds = 0
  QuietBuilds = FALSE
SYMMETRY Symmetry
CHECK_DEADLOCK FALSE
INVARIANT
  RegisteredIsOnChain
