SPECIFICATION Spec
CONSTANTS
    None = None
    Sources = {s1, s2}
    Runs = {r1, r2}
    Providers = {p1}
    Titles = {t1}
    Concepts = {c1}
    SlugMaxAttempts = 2
    Arq = TRUE
    ForeignKeys = TRUE
    Events = {"llm", "save", "post", "crash", "timeout", "restart", "delete", "manual"}
SYMMETRY Symmetry
INVARIANTS
    TypeOK
    CompiledHasArticle
    CompleteMeansSaved
    SlugsDistinct
    LinkSound
CHECK_DEADLOCK FALSE
