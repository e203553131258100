SPECIFICATION OverlapSpec
CONSTANTS
    None = None
    Sources = {s1}
    Runs = {r1, r2, r3}
    Providers = {p1}
    Titles = {t1}
    Concepts = {c1, c2}
    SlugMaxAttempts = 2
    Arq = TRUE
    ForeignKeys = TRUE
    Events = {"llm", "post"}
SYMMETRY RunSymmetry
INVARIANTS
    FilePresent

    
CHECK_DEADLOCK FALSE
