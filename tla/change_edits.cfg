SPECIFICATION Spec
CONSTANTS
  Path <- ThreePaths
  Content <- MCContent
  Absent = "absent"
  AgentContent = {"agent"}
  UserContent = {"user", "absent"}
  InitialFiles <- MCInitialFiles
  PathForms = {"relative"}
  MaxChangeOperations = 2
  Retention = 1
  MaxCheckpoints = 1
  MaxEdits = 2
  MaxFaults = 1
  MaxCrashes = 0
  EditOwn = TRUE
INVARIANT SavedBefore
PROPERTY UndoesOnlyReached AppliedIsWhole
CHECK_DEADLOCK FALSE
