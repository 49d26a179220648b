SPECIFICATION Spec

CONSTANTS
  Batches = {b1}
  Dirs = {d1}
  Programs = {p1}
  Ids = {i1, i2}
  MaxRequests = 3
  MaxRejected = 0
  None = None
  StopOnError = TRUE
  ShareDirs = FALSE
  LoadSuspends = FALSE
  SourceMayFail = TRUE
  MayCancel = TRUE
  MayCancelBatch = TRUE
  MayCrash = TRUE

INVARIANT TypeOK
INVARIANT RowMatchesManifest
INVARIANT OneRunner
CHECK_DEADLOCK FALSE
