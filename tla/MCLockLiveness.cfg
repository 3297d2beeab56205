SPECIFICATION FairSpec
CONSTANTS
  Proc = {p1, p2, p3}
  NoFile = NoFile
  Timeout = 1
  MaxNow = 2
  MaxCrashes = 2
  Reuse = FALSE
  IoErrors = FALSE
CHECK_DEADLOCK FALSE
PROPERTIES
  RereadFileIsStale
  RecordedLockReclaimed
  CallEnds
