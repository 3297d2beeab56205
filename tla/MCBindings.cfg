SPECIFICATION MCSpec
CONSTANTS
  Proc = {p1, p2}
  Id = {i1, i2}
  Foreign = {f1}
  Hash = {h1, h2}
  None = None
  EnvFiles <- MCEnvFiles
  Emitted <- MCEmitted
  Importer = {"u1", "u2"}
  Files <- MCFiles
  Below = {"key"}
SYMMETRY Symmetry
CHECK_DEADLOCK FALSE
INVARIANTS
  FreshIsTrue
  EnvIsTrue
  GeneratedIsUsable
  ImportIsAtomic
