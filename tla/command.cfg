SPECIFICATION Spec
CONSTANTS
  Caller = {"agent", "other"}
  Verifier = {"agent"}
  Command <- MCCommand
  Single <- MCSingle
  Options <- MCOptions
  Input <- MCInput
  Diagnostic <- MCDiagnostic
  Path = {1, 2}
  Hashed = {1}
  MaxCommands = 2
  MaxParallel = 1
  Interrupt = {"timeout"}
  Stubborn = {"leader", "child"}
  MaxEdits = 1
  MaxChecks = 2
INVARIANT LimitsHold OnlyPermittedRun
PROPERTY VerdictIsEarned OldIsOld StoppedCallsEnd
CHECK_DEADLOCK FALSE
