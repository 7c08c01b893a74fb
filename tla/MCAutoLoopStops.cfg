SPECIFICATION LiveSpec
CONSTANTS
    MaxNodes = 3
    MaxIterations = 2
    MaxRetries = 1
    MaxRecovery = 1
    MaxMergeRecovery = 1
    MaxMergeRetries = 1
    MaxConsecutive = 0
    AutoMerge = TRUE
    AllowNoTests = FALSE
    AllowWeakening = FALSE
    AutoRecoverMerge = TRUE
    AutoRecoverTests = TRUE
    AutoRecoverProvider = TRUE
    HasTestCommand = TRUE
    PlannerGraphs <- MCChains
    Patches <- MCNoPatches
    Planner = {"plan", "parse"}
    Implementer = {"ok"}
    Writes = {"untracked", "patch"}
    Tests = {"passed", "failed"}
    Reviewer = {"approve", "reject", "stop_fixable", "stop_tests", "stop_terminal", "parse"}
    Merges = {"merged"}
    Replanner = {}
    MaxStarts = 2
    MaxMerges = 0
PROPERTIES
    AutoStops
CHECK_DEADLOCK FALSE
