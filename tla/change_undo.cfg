SPECIFICATION Spec
CONSTANTS
  Path <- ThreePaths
  Content <- MCContent
  Absent = "absent"
  AgentContent = {"agent"}
  UserContent = {"user"}
  InitialFiles <- MCInitialFiles
  PathForms = {"relative"}
  MaxChangeOperations = 2
  Retention = 1
  MaxCheckpoints = 1
  MaxEdits = 1
  MaxFaults = 0
  MaxCrashes = 0
  EditOwn = TRUE

PROPERTY UndoKeepsEdits
CHECK_DEADLOCK FALSE
