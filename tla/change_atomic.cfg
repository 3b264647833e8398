SPECIFICATION Spec
CONSTANTS
  Path <- TwoPaths
  Content <- MCContent
  Absent = "absent"
  AgentContent = {"agent"}
  UserContent = {"user"}
  InitialFiles <- MCInitialFiles
  PathForms = {"relative"}
  MaxChangeOperations = 2
  Retention = 2
  MaxCheckpoints = 3
  MaxEdits = 0
  MaxFaults = 1
  MaxCrashes = 1
  EditOwn = FALSE
PROPERTY Atomic
CHECK_DEADLOCK FALSE
