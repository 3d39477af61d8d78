CONSTANTS
    Scalars <- OneScalar
    Golds <- SomeGolds
    Completions = {}
    Prompts <- TwoPrompts
    GoldOf <- TwoGolds
    Texts <- FourTexts
    GoldText <- Plain
    Ks = {1}
    BatchSize = 1
    MinMargin <- Twentieth
    PairCap = 1
    Fallback = TRUE
    Corpora = {}
    Styles <- FourStyles
    Answer <- AnswerIn
    Margin <- Eighth
    Alpha <- Quarter
    Floors <- SomeFloors
    Probes <- ThreeProbes
    TaxMargin <- Third
    Settings <- TwoSettings
    MaxLength = 4
    Losses = {1}
    MaxRuns = 2
    Slices <- TwoSlices
    Notes <- NotesOf
    Sizes <- OneSize
    Attempts = 2
    MaxBuilds = 0
    Merges <- SomeMerges
    Templates = {"none", "own", "rewriting", "broken"}
    Batches = {}
    Fillers <- SomeFillers
    Multiples = {1, 4}
    TokenBudget = 17
    Requests <- ThreeRequests
    Replies <- SomeReplies
    Vocabularies = {}
    SampleCounts = {2}
    RowsPerCall = 2
    NewTokens = 3
    None = None
    age = age
    m1 = m1
    m2 = m2
    p1 = p1
    p2 = p2
    p3 = p3
    a1 = a1
    a2 = a2
SPECIFICATION Spec
INVARIANT
    ReferenceIsSupervised
CHECK_DEADLOCK FALSE
