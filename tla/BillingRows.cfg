SPECIFICATION Spec
CONSTANTS
    None = None
    Subs = {a}
    a = a
    q = q
    r = r
    Statuses = {"active", "on_trial", "past_due", "cancelled", "paused", "expired", "unpaid"}
    Requests = {q, r}
    MaxMoves = 3
    NaiveOnly = FALSE
    Faults = {"lose", "abort", "skip"}
SYMMETRY Symmetry
INVARIANTS
    TypeOK
    Reported
CHECK_DEADLOCK FALSE
