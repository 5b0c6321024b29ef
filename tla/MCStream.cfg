SPECIFICATION StreamSpec
CONSTANTS
    MaxBurst = 3
    MayCrash = TRUE
    MaxSteps = 7
    Closed = Closed
    Final = Final
INVARIANTS
    StreamTypeOK
    NothingLost
    ServedIsComplete
PROPERTIES
    ImplementsFeed
    RunOutlivesReader
    EveryStreamEnds
