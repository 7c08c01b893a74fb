SPECIFICATION Spec
CONSTANTS
    Pids = {1, 2}
    Others = {"other", "peer"}
INVARIANTS
    TypeOK
    RunnerFindable
    StopStops
    CleanupSpares
PROPERTIES
    CancelledStays
CHECK_DEADLOCK FALSE
