SPECIFICATION FairSpec
CONSTANTS
    Failed = {f1,f2}
    Others = {o1}
    Foreign = {f2}
    Anonymous = {o1}
    Requests = {d1,d2}
    NoEvent = NoEvent
    Limit = 1
    MaxMonth = 2
    MaxDeliveries = 3
    MaxFaults = 1
INVARIANTS
    TypeOK
    OneDecider
    CapHolds
    OneMailAMonth
PROPERTIES
    ImplementsAdmission
    StoredIsDecided
CHECK_DEADLOCK FALSE
