SPECIFICATION Spec
CONSTANTS
    Attempts = {1, 2}
    Checkouts = {"base"}
    MaxKills = 0
    MaxTimeouts = 0
PROPERTIES
    RepairedMerges
CHECK_DEADLOCK FALSE
