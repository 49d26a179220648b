SPECIFICATION Spec

CONSTANTS
  Ids = {"a", "b", "c"}
  Programs = {"p", "q"}
  Source <- Source3
  MaxRuns = 2
  MaxConcurrency = 2
  ErrorPolicy = "stop_after_n"
  MaxErrors = 1
  ResumeModes = {TRUE}
  Overlap = FALSE
  MayCrash = TRUE
  MayTear = FALSE
  MayCancel = TRUE
  SourceMayFail = TRUE
  CallbackMayRaise = TRUE

INVARIANT TypeOK
INVARIANT CountersMatchLog
INVARIANT SingleProgramLog
INVARIANT ManifestHonest
PROPERTY NoRepeatedSpend
PROPERTY LedgerSpec
CHECK_DEADLOCK FALSE
