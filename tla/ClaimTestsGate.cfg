SPECIFICATION Spec
CONSTANTS
    MaxNodes = 1
    MaxIterations = 2
    MaxRetries = 1
    MaxRecovery = 2
    MaxMergeRecovery = 1
    MaxMergeRetries = 1
    MaxConsecutive = 0
    AutoMerge = TRUE
    AllowNoTests = FALSE
    AllowWeakening = FALSE
    AutoRecoverMerge = TRUE
    AutoRecoverTests = TRUE
    AutoRecoverProvider = TRUE
    HasTestCommand = TRUE
    PlannerGraphs <- MCOneNode
    Patches <- MCNoPatches
    Planner = {"plan"}
    Implementer = {"ok"}
    Writes = {"untracked", "patch"}
    Tests = {"passed"}
    Reviewer = {"approve", "stop_fixable"}
    Merges = {"merged"}
    Replanner = {}
    MaxStarts = 3
    MaxMerges = 0
INVARIANT
    TestsGateMerge
CHECK_DEADLOCK FALSE
