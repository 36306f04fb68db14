SPECIFICATION Spec
CONSTANTS
    Cases = {c1}
    Ladders = {l1}
    Posts = {}
    Captures = {}
    Reachable = {c1}
    NoCase = NoCase
    MaxRuns = 1
    MaxNow = 1
    MaxFaults = 0
INVARIANTS
    FirstLinkNeverDead
CHECK_DEADLOCK FALSE
