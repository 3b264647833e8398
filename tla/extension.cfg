SPECIFICATION Spec
CHECK_DEADLOCK FALSE
CONSTANTS
    Caller = {c1, c2}
    Operation = {"submit", "apply", "reject"}
    Slot = {1, 2, 3, 4}
    MaxRestarts = 1
    RestartOnCrash = TRUE
    MaxOperations = 1
    MaxAsked = 3
    MaxAged = 1
    MaxStops = 1
PROPERTIES
    AppliesWhatWasShown
    RequestsEnd
    RestartsEnd
