CONSTANTS
  Files = {"index", "a", "b"}
  MaxConcurrent = 2
  Modes = {"oneByOne", "allAtOnce"}
  Globals = {TRUE, FALSE}
  Faults = TRUE
SPECIFICATION FairSpec
CHECK_DEADLOCK FALSE
INVARIANTS
  TypeOK
  PutDirInv
  BadEntriesAreKept
  FailuresAreCarried
PROPERTIES
  KeepsDirPromise
  PutDirEnds
