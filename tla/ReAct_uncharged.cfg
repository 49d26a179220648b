SPECIFICATION Spec

CONSTANTS
  MaxTurns = 3
  MaxRetries = 1
  MaxTools = 2
  RaiseOnError = TRUE

INVARIANT TrialSeesIterations
CHECK_DEADLOCK FALSE
