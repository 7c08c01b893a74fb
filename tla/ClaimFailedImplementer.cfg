SPECIFICATION LiveSpec
CONSTANTS
    MaxNodes = 1
    MaxIterations = 2
    MaxRetries = 1
    MaxRecovery = 1
    MaxMergeRecovery = 1
    MaxMergeRetries = 1
    MaxConsecutive = 0
    AutoMerge = TRUE
    AllowNoTests = FALSE
    AllowWeakening = FALSE
    AutoRecoverMerge = TRUE
    AutoRecoverTests = TRUE
    AutoRecoverProvider = TRUE
    HasTestCommand = TRUE
    PlannerGraphs <- MCOneNode
    Patches <- MCNoPatches
    Planner = {"plan"}
    Implementer = {"ok", "error"}
    Writes = {"patch"}
    Tests = {"passed"}
    Reviewer = {"approve"}
    Merges = {"merged"}
    Replanner = {}
    MaxStarts = 1
    MaxMerges = 0
PROPERTY
    FailedImplementerRunsAgain
CHECK_DEADLOCK FALSE
