SPECIFICATION LiveSpec
CONSTANTS
    MaxLate = 1
    Kinds = {"provider", "test"}
    Natures = {"plain", "graceful", "stubborn"}
    Descents = {{}, {"quiet"}, {"outside"}, {"holds", "outside"}, {"quiet", "outside"}}
INVARIANTS
    TypeOK
    OkEndedAlone
    TimedOutGroupGone
PROPERTIES
    TimedOutGroupEnds
    EveryCallReturns
CHECK_DEADLOCK FALSE
