SPECIFICATION Spec
CONSTANTS
    MaxNodes = 3
    MaxIterations = 3
    MaxRetries = 1
    MaxRecovery = 1
    MaxMergeRecovery = 1
    MaxMergeRetries = 1
    MaxConsecutive = 0
    AutoMerge = TRUE
    AllowNoTests = FALSE
    AllowWeakening = TRUE
    AutoRecoverMerge = TRUE
    AutoRecoverTests = TRUE
    AutoRecoverProvider = TRUE
    HasTestCommand = FALSE
    PlannerGraphs <- MCPolicedShapes
    Patches <- MCPatches
    Planner = {"plan"}
    Implementer = {"ok"}
    Writes = {"patch"}
    Tests = {}
    Reviewer = {"approve", "reject", "replan"}
    Merges = {"merged", "conflict"}
    Replanner = {"patch", "refused"}
    MaxStarts = 2
    MaxMerges = 0
INVARIANTS
    TypeOK
    OnlyJudgedWorkMerges
    DependenciesInBase
    PassedIsMerged
    DoneMeansDelivered
    HistorySettled
PROPERTIES
    PassedIsFinal
    DeliveryImplemented
CHECK_DEADLOCK FALSE
