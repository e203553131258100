SPECIFICATION SerialSpec
CONSTANTS
    None = None
    Sources = {s1, s2}
    Runs = {r1, r2, r3}
    Providers = {p1, p2}
    Titles = {t1}
    Concepts = {c1, c2}
    SlugMaxAttempts = 2
    Arq = TRUE
    ForeignKeys = TRUE
    Events = {"llm", "post", "delete"}
INVARIANTS
    BuildSound
    StatusTrue
PROPERTIES
    SourceSettles
CHECK_DEADLOCK FALSE
