SPECIFICATION Spec
CONSTANTS
    Cases = {c1, c2}
    Ladders = {l1}
    Posts = {q1, q2}
    Captures = {k1}
    Reachable = {c1}
    NoCase = NoCase
    MaxRuns = 2
    MaxNow = 0
    MaxFaults = 1
SYMMETRY Interchangeable
INVARIANTS
    TypeOK
    AtMostOneReminder
    LinkWinsOnce
PROPERTIES
    ImplementsDunning
CHECK_DEADLOCK FALSE
