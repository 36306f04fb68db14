SPECIFICATION FairSpec
CONSTANTS
    NumEvents = 2
    NumAttempts = 2
    Concurrency = 2
    MaxFaults = 2
INVARIANTS
    SlotsRespected
    CleanStop
PROPERTIES
    StopReturns
    NothingStarves
CHECK_DEADLOCK FALSE
