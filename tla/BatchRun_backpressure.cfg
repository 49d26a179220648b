SPECIFICATION FairSpec

CONSTANTS
  Ids = {"a", "b", "c", "d", "e", "f"}
  Programs = {"p"}
  Source <- Source6
  MaxRuns = 1
  MaxConcurrency = 1
  ErrorPolicy = "stop_after_n"
  MaxErrors = 2
  ResumeModes = {TRUE}
  Overlap = FALSE
  MayCrash = TRUE
  MayTear = FALSE
  MayCancel = TRUE
  SourceMayFail = TRUE
  CallbackMayRaise = TRUE

INVARIANT NothingOutlivesResult
INVARIANT BoundedBacklog
PROPERTY EveryRunEnds
CHECK_DEADLOCK FALSE
