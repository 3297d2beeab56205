SPECIFICATION Spec
CONSTANTS
  Proc = {p1}
  Name = {n1}
  Id = {i1, i2, i3, i4}
  Hash = {h1, h2}
  None = None
  Ops = {"deploy", "deploy-if-changed", "deploy-force", "deploy-upgrade", "upgrade", "upgrade-if-changed", "migrate"}
  Deployed = FALSE
  MaxAttempts = 2
  MaxCommands = 4
  Faults = FALSE
  MaxBuilds = 3
  QuietBuilds = TRUE
SYMMETRY Symmetry
CHECK_DEADLOCK FALSE
INVARIANT
  RegisteredHashIsOnChain
