\* Analyze, SaveState, and LoadState on a fresh bbMatcher, nothing cached
\* before, on every chart of four blocks with at most five edges and one
\* content for every block.
CONSTANTS
    Blocks <- MCBlocks
    Flowcharts <- MCFlowcharts
    ContentList <- OneContent
    MinFunctionSizeInBlocks = 3
    CacheScripts <- NoScripts
    SaveOutcomes <- SaveAlways
    MaxAnalyses = 1
    SaveStates = TRUE
INIT Init
NEXT Next
CHECK_DEADLOCK FALSE
INVARIANT FindSimilarRoundTrip
