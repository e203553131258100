CONSTANTS
    p1 = p1
    t1 = t1
    t2 = t2
    t3 = t3
    w1 = w1
    Identities <- MCIdentities
    Emails = {e1, e2}
    Attempts = {r1, r2}
    MaxUsers = 2
    MaxTime = 1
    MaxSigned = 2
    StateTTL = 0
    LinkTTL = 0
    JwtTTL = 1
    Clients = {e1, e2}
    Owners = {u1, u2}
    Requests = {q1, q2}
    Exchanges = {r1, r2}
    Checks = {k1}
    MaxTokens = 2
    EndOfTime = 1
    CodeTTL = 0
    TokenTTL = 0
    Creates = {r1, r2}
    Views = {r1, r2}
    MaxActive = 1
    MaxLinks = 2
    MaxViews = 2
    Horizon = 1
    MaxTables = 3
    BillingEnabled = TRUE
    KeyUsers = {u1, u2}
    KeyProviders = {q1}
    Puts = {k1, k2, k3}
    MaxSecrets = 1
    People = {u1, u2}
    Boss = u1
    MaxItems = 2
    LastMinute = 2
    StuckAfter = 1
    Readers = {r1, r2}
    Profiles <- MCProfiles
    Words = {w1}
    TagNames = {"later"}
    Relations = {"references", "contradicts"}
    MaxPages = 3
    MaxWrites = 4
SPECIFICATION AccessSpec
CHECK_DEADLOCK FALSE
SYMMETRY Symmetry
INVARIANTS LoginsSound GrantsSound SharesSound KeysAndJobsSound 
PROPERTIES NothingUndone 
