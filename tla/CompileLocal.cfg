SPECIFICATION SerialSpec
CONSTANTS
    None = None
    Sources = {s1}
    Runs = {r1, r2, r3}
    Providers = {p1}
    Titles = {t1}
    Concepts = {c1}
    SlugMaxAttempts = 3
    Arq = FALSE
    ForeignKeys = FALSE
    Events = {"crash", "delete"}
PROPERTIES
    SourceSettles
CHECK_DEADLOCK FALSE
