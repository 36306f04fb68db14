SPECIFICATION WebSpec
CONSTANTS
    Cases = {1, 2, 3}
    Detailed = {1}
    Amounts = {1, 2}
    MaxRung = 2
    PageSize = 1
    DayLength = 1
    WindowDays = 1
    MaxNow = 1
    Scopes = {login}
    Addresses = {a1}
    NoAddress = NoAddress
    Limit <- TwoPerWindow
    Window = 2
    MaxClock = 5
    Tabs = {t1, t2}
    ScriptRuns = {r1, r2}
    Names = {n0, n1, n2}
    FirstName = n0
    None = None
    MaxSecrets = 2
    MaxLost = 1
    Polls = {q1, q2}
    MaxFailed = 1
INVARIANTS
    WalkIsExact
    TimelineIsCausal
    FiguresAgree
    BurstBound
    NameIsAudited
    SecretStaysReadable
PROPERTIES
    BannerSettles
CHECK_DEADLOCK FALSE
