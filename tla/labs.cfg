CONSTANTS
    MaxSteps = 3
    Accum = 2
    WarmupSteps = 1
    MaxLoss = 2
    MaxStarts = 3
    Intervals <- AllIntervals
    Tokens = {1, 2, 3}
    Eos = 3
    Rows = {1, 2}
    Layers = 2
    MaxSeqLen = 4
    PromptLens = {1, 2}
    Bytes = 2
    Merges = 3
    Corpora <- AllCorpora
    Probes <- ShortWords
    Labels = {neg, pos}
    ClassSizes <- SomeSizes
    Fractions <- SomeFractions
    MaxEpochs = 3
    Patiences = {0, 1, 2}
    Scores = 2
    MaxRuns = 2
    Wrapped = {query, value}
    Adapters = {0, 1, 2}
    MaxMergedLoads = 1
SPECIFICATION Spec
INVARIANTS
    ContinuesExactly
    HistoryComplete
    BestIsKept
    CachedIsUncached
    EncodingReplaysTraining
    SplitIsStratified
    BestEpochIsKept
    RebuiltIsTested
    MergeIsInvisible
CHECK_DEADLOCK FALSE
