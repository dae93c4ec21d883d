CONSTANTS
  None = None
  MaxGen = 2
  MaxSends = 2
  Outcomes = {"ok", "failed"}
  Lossy = TRUE
  Cleans = TRUE
SPECIFICATION Spec
INVARIANTS ResultIsReal SentAgainOnlyAfterFailure CachedIsAccepted
PROPERTIES StoredIsSeen CachedIsAnswered
CHECK_DEADLOCK FALSE
