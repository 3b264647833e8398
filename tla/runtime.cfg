SPECIFICATION Spec
CONSTANTS
  Root = {"a", "b"}
  NoRoot = "none"
  Mode = {"ask", "agent", "orchestrated"}
  MaxTasks = 2
  MaxAsked = 2
  MaxSteps = 3
  MaxOrchestrators = 2
  MaxOperations = 1
  MaxRepairAttempts = 0
  RollbackOnFailure = TRUE
  VerifyAfterApply = TRUE
  Verdict = {"passed", "failed"}
INVARIANT ChangesOfWorkspace OneWritePerApproval
PROPERTY ApplyUndisturbed WritesTrusted TaskEnds
CHECK_DEADLOCK FALSE
