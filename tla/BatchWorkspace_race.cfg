SPECIFICATION FairSpec

CONSTANTS
  Batches = {b1}
  Dirs = {d1}
  Programs = {p1, p2}
  Ids = {i1, i2}
  MaxRequests = 2
  MaxRejected = 1
  None = None
  StopOnError = TRUE
  ShareDirs = TRUE
  LoadSuspends = TRUE
  SourceMayFail = TRUE
  MayCancel = FALSE
  MayCancelBatch = FALSE
  MayCrash = FALSE

INVARIANT CompletedIsComplete
PROPERTY RunningEnds
CHECK_DEADLOCK FALSE
