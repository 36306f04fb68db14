SPECIFICATION Spec
CONSTANTS
    Browsers = {b1}
    Requests = {p1, p2}
    Links = {l1}
    None = None
    Lifetime = 4
    Grace = 1
    LinkTTL = 1
    MaxNow = 4
    MaxSessions = 3
    MaxFaults = 1
SYMMETRY Interchangeable
INVARIANTS
    TypeOK
    ResetEndsSessions
    LinksChangeOnce
    CookieWorks
CHECK_DEADLOCK FALSE
