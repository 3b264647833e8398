SPECIFICATION Spec
CONSTANTS
  MaxSteps = 4
  MaxCalls = 2
  Content = {1, 2}
  Decision = {"approved", "pending"}
  MaxOperations = 1
  MaxRepairAttempts = 1
  RollbackOnFailure = FALSE
  VerifyAfterApply = TRUE
  Verdict = {"passed", "failed"}
INVARIANT LimitIsReported FailureIsReported
PROPERTY AbortBoundsWork Ends
CHECK_DEADLOCK FALSE
