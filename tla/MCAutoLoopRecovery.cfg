SPECIFICATION Spec
CONSTANTS
    MaxNodes = 1
    MaxIterations = 1
    MaxRetries = 1
    MaxRecovery = 2
    MaxMergeRecovery = 1
    MaxMergeRetries = 1
    MaxConsecutive = 2
    AutoMerge = TRUE
    AllowNoTests = FALSE
    AllowWeakening = FALSE
    AutoRecoverMerge = TRUE
    AutoRecoverTests = TRUE
    AutoRecoverProvider = TRUE
    HasTestCommand = TRUE
    PlannerGraphs <- MCChain
    Patches <- MCNoPatches
    Planner = {"plan", "parse", "refused"}
    Implementer = {"ok", "error"}
    Writes = {"clean", "untracked", "patch"}
    Tests = {"passed", "failed", "failed_env"}
    Reviewer = {"approve", "reject", "stop_fixable", "stop_tests", "stop_terminal", "provider", "parse"}
    Merges = {"merged", "conflict", "busy"}
    Replanner = {}
    MaxStarts = 3
    MaxMerges = 0
INVARIANTS
    OnlyJudgedWorkMerges
    PassedIsMerged
    EffortBounded
PROPERTIES
    ApprovedStays
CHECK_DEADLOCK FALSE
