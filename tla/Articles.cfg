CONSTANTS
    Procs = {p1, p2, p3}
    Arts = {a1, a2}
    Drafts = {d1}
    First = a1
    None = None
SPECIFICATION Spec
CHECK_DEADLOCK FALSE
INVARIANTS  ReviewsSound
PROPERTY JobEnds
