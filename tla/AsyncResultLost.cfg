CONSTANTS
  None = None
  MaxGen = 2
  MaxSends = 2
  Outcomes = {"ok", "failed", "failedNoText"}
  Lossy = FALSE
  Cleans = FALSE
SPECIFICATION Safety
INVARIANT NilMeansProcessing
CHECK_DEADLOCK FALSE
