SPECIFICATION Spec

CONSTANTS
  Ids = {"a", "b"}
  Programs = {"p"}
  Source <- Source2
  MaxRuns = 2
  MaxConcurrency = 2
  ErrorPolicy = "continue"
  MaxErrors = 1
  ResumeModes = {TRUE}
  Overlap = FALSE
  MayCrash = TRUE
  MayTear = TRUE
  MayCancel = FALSE
  SourceMayFail = FALSE
  CallbackMayRaise = FALSE

INVARIANT CompletedIsRecorded
CHECK_DEADLOCK FALSE
