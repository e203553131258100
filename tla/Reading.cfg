SPECIFICATION ReadingSpec
CONSTANTS
    Shapes <- MCShapes
    MaxSections = 3
    MaxParagraphs = 2
    MaxTokens = 1
    LargeTokens = 4
    MaxParts = 2
    PromptChars = 10
    EmbedTokens = 2
    OverlapTokens = 1
    MaxPdfPages = 3
    MaxPlaced = 3
    Pictures = {g1, g2, g3, g4}
    Icons = {g3}
    Broad = {g4}
    MaxImages = 2
    BatchPages = 2
    Vision = TRUE
    SchemaIds = {x1, x2, x3}
    SchemaNames = {n1, n2}
    SchemaRequests = {y1, y2}
    NoSchema = NoSchema
    Names = {x1, x2, x3}
    Saves = {y1, y2}
    Rebuilds = {y1, y2}
    MaxDepth = 2
    Threshold = 2
    Root = Root
    Scorings = {y1, y2}
    ClaimSets <- MCClaimSets
    Jumps = {300, 701}
    MaxClock = 1301
    MaxContras = 1
    Never = Never
    Users = {u1}
    Tagged = {x1, x2, x3}
    PageRuns = {y1, y2}
    MinSources = 2
    ForeignKeys = FALSE
    NoUser = NoUser
    SynthReqs = {y1, y2}
    Material = {m1, m2, m3}
    Score <- MCScore
    MaxSources = 2
    MaxArticles = 1
    Nobody = Nobody
    Chats = {x1, x2, x3}
    MaxRequests = 3
    MaxQueries = 2
    MaxPrior = 1
    MaxPosts = 3
SYMMETRY Symmetry
INVARIANTS TextKept SchemaFollowed  ThreadsSound
PROPERTIES ThreadGrows
CHECK_DEADLOCK FALSE
