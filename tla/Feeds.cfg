SPECIFICATION FeedsSpec
CONSTANTS
    None = None
    i1 = i1
    i2 = i2
    i3 = i3
    c = c
    d = d
    q = q
    r = r
    u = u
    v = v
    m = m
    Ids = {i1, i2, i3}
    Contents = {c, d}
    Requests = {q, r}
    MaxSources = 2
    MaxStorage = 4
    Backfilled = TRUE
    Events = {"crash", "write", "extract", "delete"}
    Keys = {c, d}
    Writers = {q, r}
    Triages = {q, r}
    MaxEntries = 1
    Skew = 0
    Day = 3
    MaxCaptures = 2
    Replicas = {q, r}
    Sockets = {c, d}
    Emitters = {m}
    MaxEvents = 2
    Processes = {q, r}
    OldQueries = {u}
    OldPages = {c, d}
    OldNames = {v}
SYMMETRY Symmetry
INVARIANTS ContentOnce UsageTrue  EventsSound 
CHECK_DEADLOCK FALSE
