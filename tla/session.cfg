SPECIFICATION FairSpec
CONSTANTS
  Node <- MCNode
  Dep <- MCDep
  Rank <- MCRank
  Writer <- MCWriter
  SharesFile <- MCSharesFile
  MaxParallel = 3
  PlanningNode = "planning"
  SecurityNode = "security"
  ReviewNode = "review"
  Replanned <- MCReplanned
  Outcomes <- MCOutcomes
  Refusable = {"documentation"}
  UserNodes = {"performance"}
  MaxReplans = 1
  MaxSubtasks = 9
  Lag = {"release"}
  MaxTurns = 3
  MaxRuns = 2
  MaxCrashes = 1
CHECK_DEADLOCK FALSE
INVARIANT RunningHasRun OneAgentPerNode DependencyOrder FinalGate VetoBlocksApproval DecisionIsFinal
PROPERTY CancelStopsOwnRun RunResolves CancelQuiesces
