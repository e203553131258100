SPECIFICATION SerialSpec
CONSTANTS
    None = None
    Sources = {s1}
    Runs = {r1, r2}
    Providers = {p1}
    Titles = {t1}
    Concepts = {c1}
    SlugMaxAttempts = 2
    Arq = FALSE
    ForeignKeys = FALSE
    Events = {"llm", "crash"}
INVARIANTS
    FailureRecorded
CHECK_DEADLOCK FALSE
