SPECIFICATION FairSpec
CONSTANTS
    Events = {e1}
    WorkerSlots = {w1, w2}
    WebCalls = {}
    MaxAttempts = 2
    NoEvent = NoEvent
    MaxManual = 0
    MaxFaults = 1
PROPERTIES
    QueuedIsSettled
CHECK_DEADLOCK FALSE
