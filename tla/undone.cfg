SPECIFICATION Spec
CONSTANTS
    Cases = {c1}
    Ladders = {l1}
    Posts = {q1}
    Captures = {}
    Reachable = {c1}
    NoCase = NoCase
    MaxRuns = 1
    MaxNow = 3
    MaxFaults = 0
PROPERTIES
    RecoveryIsKept
CHECK_DEADLOCK FALSE
