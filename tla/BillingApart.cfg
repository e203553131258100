SPECIFICATION ApartSpec
CONSTANTS
    None = None
    Subs = {a}
    a = a
    q = q
    Statuses = {"active", "on_trial", "past_due", "cancelled", "paused", "expired"}
    Requests = {q}
    MaxMoves = 5
    NaiveOnly = FALSE
    Faults = {"skip"}
INVARIANTS
    OrderedInSync
PROPERTIES
    Converges
    
CHECK_DEADLOCK FALSE
