SPECIFICATION Spec

CONSTANTS
  Batches = {b1}
  Dirs = {d1}
  Programs = {p1}
  Ids = {i1, i2}
  MaxRequests = 2
  MaxRejected = 0
  None = None
  StopOnError = FALSE
  ShareDirs = FALSE
  LoadSuspends = TRUE
  SourceMayFail = TRUE
  MayCancel = FALSE
  MayCancelBatch = FALSE
  MayCrash = FALSE

INVARIANT OneRunner
CHECK_DEADLOCK FALSE
