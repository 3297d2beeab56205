SPECIFICATION Spec
CONSTANTS
  Proc = {p1, p2}
  Name = {n1}
  Id = {i1, i2, i3, i4}
  Hash = {h1, h2}
  None = None
  Ops = {"deploy", "deploy-force", "deploy-upgrade", "upgrade", "upgrade-if-changed"}
  Deployed = TRUE
  MaxAttempts = 2
  MaxCommands = 3
  Faults = TRUE
  MaxBuilds = 1
  QuietBuilds = FALSE
SYMMETRY Symmetry
CHECK_DEADLOCK FALSE
INVARIANTS
  TypeOK
  EveryInstanceAccounted
PROPERTIES
  ImplementsRegistry
  UpdatesSerialized
