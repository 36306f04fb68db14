SPECIFICATION Spec
CONSTANTS
    Cases = {c1}
    Ladders = {l1, l2}
    Posts = {}
    Captures = {k1}
    Reachable = {c1}
    NoCase = NoCase
    MaxRuns = 1
    MaxNow = 3
    MaxFaults = 0
SYMMETRY Interchangeable
INVARIANTS
    LadderOrder
    OneActiveLinkPerMinter
PROPERTIES
    OnlyAbandonStrands
CHECK_DEADLOCK FALSE
