SPECIFICATION ParRestartSpec
CONSTANTS
    MaxNodes = 3
    MaxIterations = 3
    MaxRetries = 1
    MaxRecovery = 0
    MaxMergeRecovery = 1
    MaxMergeRetries = 1
    MaxConsecutive = 0
    AutoMerge = TRUE
    AllowNoTests = FALSE
    AllowWeakening = FALSE
    AutoRecoverMerge = TRUE
    AutoRecoverTests = TRUE
    AutoRecoverProvider = TRUE
    HasTestCommand = TRUE
    PlannerGraphs <- MCShapes
    Patches <- MCNoPatches
    Planner = {"plan"}
    Implementer = {"ok"}
    Writes = {"patch"}
    Tests = {"passed"}
    Reviewer = {"approve"}
    Merges = {"merged"}
    Replanner = {}
    MaxStarts = 1
    MaxMerges = 0
    MaxParallel = 2
    WorkerImplementer = {"ok"}
PROPERTY
    ParTaskCompletes
CHECK_DEADLOCK FALSE
