SPECIFICATION Spec
CONSTANTS
    Tiers = {starter, growth}
    Requests = {p1, p2, p3}
    None = None
    MaxNow = 2
    MaxFaults = 1
INVARIANTS
    TypeOK
    PlanIsOfSubscription
    FirstSubscriptionConverges
PROPERTIES
    RowKeepsOrder
CHECK_DEADLOCK FALSE
SYMMETRY Symmetry
