CONSTANTS
    p1 = p1
    p2 = p2
    p3 = p3
    pa = pa
    pb = pb
    pc = pc
    u1 = u1
    u2 = u2
    LintPages = {p1, p2, p3}
    Pairs <- MCPairs
    Shared <- MCShared
    MaxPairs = 2
    Claimless = {}
    Edited = {p2}
    Clashes = {c1}
    OneWay <- MCOneWay
    Flawed = {p3}
    Lints = {y1, y2}
    Dismissals = {d1}
    Callers = {u1, u2}
    Calls = {y1, y2}
    Enum <- MCEnum
    Enabled = {pa, pb}
    ServerKey = {pa, pb}
    ByokCapable = {pa, pc}
    Stored <- MCStored
    Default = pa
    PlanProvider = pa
    Billing = TRUE
    Fallback = TRUE
    SpendCap <- MCSpendCap
    Warn = 1
    Budget = 2
    Redis = TRUE
    Patches = {y1, y2}
    Tests = {d1}
    IsDev = TRUE
    SoldPlans = {p1, p2}
    ActivePlans = {p1}
    MaxChanges = 2
    MaxPolls = 2
    Requests = {y1, y2}
SPECIFICATION UpkeepSpec
CHECK_DEADLOCK FALSE
SYMMETRY Symmetry
INVARIANTS LintRunsSound LintReportsSound  SettingsSound
