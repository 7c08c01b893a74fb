SPECIFICATION LiveSpec
CONSTANTS
    Attempts = {1, 2, 3}
    Checkouts = {"base", "side"}
    MaxKills = 1
    MaxTimeouts = 1
INVARIANTS
    TypeOK
    MergedIsInBase
    NoTreeLeft
PROPERTIES
    OtherBranchUntouched
    AllMerge
CHECK_DEADLOCK FALSE
