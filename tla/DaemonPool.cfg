SPECIFICATION FairSpec
CONSTANTS
  r1 = r1
  r2 = r2
  r3 = r3
  Requests = {r1, r2, r3}
  Size = 2
  MaxAttempts = 2
  CancelFirst = TRUE
INVARIANTS WorkersHoldSlots SuccessIsComplete
PROPERTIES ShutdownEndsRuns RunIsBoundedRetry
CHECK_DEADLOCK FALSE
