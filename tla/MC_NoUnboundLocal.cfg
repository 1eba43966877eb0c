CONSTANTS
    Blocks <- MCBlocks
    Flowcharts <- MCFlowcharts
    ContentList <- MCContents
    MinFunctionSizeInBlocks = 3
    CacheScripts <- NoScripts
    SaveOutcomes <- SaveAlways
    MaxAnalyses = 1
    SaveStates = FALSE
INIT Init
NEXT Next
CHECK_DEADLOCK FALSE
INVARIANT NoUnboundLocal
