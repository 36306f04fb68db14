SPECIFICATION FairSpec
CONSTANTS
    Cases = {c1}
    Ladders = {l1}
    Posts = {q1}
    Captures = {k1}
    Reachable = {c1}
    NoCase = NoCase
    MaxRuns = 1
    MaxNow = 3
    MaxFaults = 0
PROPERTIES
    LadderCompletes
CHECK_DEADLOCK FALSE
