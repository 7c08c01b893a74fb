SPECIFICATION RestartSpec
CONSTANTS
    MaxNodes = 2
    MaxIterations = 2
    MaxRetries = 1
    MaxRecovery = 1
    MaxMergeRecovery = 1
    MaxMergeRetries = 1
    MaxConsecutive = 0
    AutoMerge = TRUE
    AllowNoTests = FALSE
    AllowWeakening = FALSE
    AutoRecoverMerge = TRUE
    AutoRecoverTests = TRUE
    AutoRecoverProvider = TRUE
    HasTestCommand = TRUE
    PlannerGraphs <- MCSplit
    Patches <- MCNoPatches
    Planner = {"plan"}
    Implementer = {"ok"}
    Writes = {"clean", "patch"}
    Tests = {"passed"}
    Reviewer = {"approve"}
    Merges = {"merged"}
    Replanner = {}
    MaxStarts = 4
    MaxMerges = 0
PROPERTIES
    TaskCompletes
CHECK_DEADLOCK FALSE
