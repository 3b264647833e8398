SPECIFICATION Spec
CHECK_DEADLOCK FALSE
CONSTANTS
    verification = verification
    performance = performance
    documentation = documentation
    coder = coder
    general = general
    NoModel = NoModel
    Node <- MCNode
    Dep <- MCDep
    Rank <- MCRank
    Writer = {documentation}
    SharesFile <- MCSharesFile
    MaxParallel = 2
    Model = {coder, general}
    ModelOf <- MCModelOf
    Outputs <- MCOutputs
    MayNest <- MCMayNest
    MaxTries = 2
    MaxSteps = 2
    MaxTotalSteps = 4
    OneModel = TRUE
INVARIANTS
    CompletedIsWhole
    OneModelLoaded
PROPERTIES
    AttemptsEnd
