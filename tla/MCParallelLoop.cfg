SPECIFICATION ParSpec
CONSTANTS
    MaxNodes = 4
    MaxIterations = 3
    MaxRetries = 1
    MaxRecovery = 0
    MaxMergeRecovery = 1
    MaxMergeRetries = 1
    MaxConsecutive = 0
    AutoMerge = TRUE
    AllowNoTests = FALSE
    AllowWeakening = FALSE
    AutoRecoverMerge = TRUE
    AutoRecoverTests = TRUE
    AutoRecoverProvider = TRUE
    HasTestCommand = TRUE
    PlannerGraphs <- MCBatches
    Patches <- MCNoPatches
    Planner = {"plan", "refused"}
    Implementer = {"ok"}
    Writes = {"untracked", "patch"}
    Tests = {"passed"}
    Reviewer = {"approve", "reject", "parse"}
    Merges = {"merged", "conflict"}
    Replanner = {}
    MaxStarts = 2
    MaxMerges = 0
    MaxParallel = 2
    WorkerImplementer = {"ok", "error", "timed_out"}
INVARIANTS
    ParTypeOK
    OneApprovalPerNode
    WithinMaxParallel
    QueueMergesApproved
    BaseMatchesGraph
PROPERTIES
    ApprovalsSurvive
    ParDeliveryImplemented
CHECK_DEADLOCK FALSE
