SPECIFICATION Spec

CONSTANTS
  Ids = {"a", "b", "c"}
  Programs = {"p"}
  Source <- Source3
  MaxRuns = 2
  MaxConcurrency = 2
  ErrorPolicy = "stop"
  MaxErrors = 1
  ResumeModes = {TRUE}
  Overlap = TRUE
  MayCrash = TRUE
  MayTear = TRUE
  MayCancel = FALSE
  SourceMayFail = FALSE
  CallbackMayRaise = FALSE

INVARIANT ErrorOvershoot
INVARIANT ValveInvariant
PROPERTY LinesAreForever
CHECK_DEADLOCK FALSE
