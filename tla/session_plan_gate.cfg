SPECIFICATION Spec
CONSTANTS
  Node <- MCNode
  Dep <- MCDep
  Rank <- MCRank
  Writer <- MCWriter
  SharesFile <- MCSharesFile
  MaxParallel = 3
  PlanningNode = "planning"
  SecurityNode = "security"
  ReviewNode = "review"
  Replanned <- MCReplanned
  Outcomes <- MCOutcomes
  Refusable = {"documentation"}
  UserNodes = {"performance"}
  MaxReplans = 0
  MaxSubtasks = 30
  Lag = {"release"}
  MaxTurns = 3
  MaxRuns = 1
  MaxCrashes = 0
CHECK_DEADLOCK FALSE
INVARIANT PlanGate
