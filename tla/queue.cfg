SPECIFICATION FairSpec
CONSTANTS
    Events = {e1, e2}
    WorkerSlots = {w1, w2}
    WebCalls = {h1}
    MaxAttempts = 2
    NoEvent = NoEvent
    MaxManual = 1
    MaxFaults = 1
INVARIANTS
    TypeOK
    ClaimExclusive
    LedgerBeforeSuccess
    RetryBudget
PROPERTIES
    ImplementsClaimQueue
    TerminalIsFinal
    EventuallySettled
CHECK_DEADLOCK FALSE
