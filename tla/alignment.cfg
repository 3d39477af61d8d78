CONSTANTS
    Scalars <- OneScalar
    Golds <- SomeGolds
    Completions <- AllCompletions
    Prompts <- TwoPrompts
    GoldOf <- TwoGolds
    Texts <- FourTexts
    GoldText <- Plain
    Ks = {1, 4}
    BatchSize = 1
    MinMargin <- Twentieth
    PairCap = 1
    Fallback = TRUE
    Corpora <- SomeCorpora
    Styles <- FourStyles
    Answer <- AnswerIn
    Margin <- Eighth
    Alpha <- Quarter
    Floors <- SomeFloors
    Probes <- ThreeProbes
    TaxMargin <- Third
    Settings <- SomeSettings
    MaxLength = 4
    Losses <- SomeLosses
    MaxRuns = 2
    Slices <- TwoSlices
    Notes <- NotesOf
    Sizes <- SomeSizes
    Attempts = 2
    MaxBuilds = 2
    Merges <- SomeMerges
    Templates = {"none", "own", "rewriting", "broken"}
    Batches <- SomeBatches
    Fillers <- SomeFillers
    Multiples = {1, 4}
    TokenBudget = 17
    Requests <- ThreeRequests
    Replies <- SomeReplies
    Vocabularies <- SomeVocabularies
    SampleCounts = {2}
    RowsPerCall = 2
    NewTokens = 3
    None = None
    age = age
    m1 = m1
    m2 = m2
    p1 = p1
    p2 = p2
    p3 = p3
    a1 = a1
    a2 = a2
SPECIFICATION Spec
INVARIANTS
    RepairNeverLowers
    LenientIsNoLower
    PreferencesAgree
    OutcomesExplainYield
    PromotionIsEarned
    TaxIsTold
    NothingVanishes
    UpdatesAreExact
    ReferenceIsBase
    PublishedIsBest
    CorpusIsSound
    LabelsMarkTheAnswer
    CompletionsAreOwn
CHECK_DEADLOCK FALSE
