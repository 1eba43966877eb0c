\* Analyze after build_cache.py (and perhaps t2.py) has cached the function's graph.
CONSTANTS
    Blocks <- MCBlocks
    Flowcharts <- MCFlowcharts
    ContentList <- OneContent
    MinFunctionSizeInBlocks = 3
    CacheScripts <- BuildCacheT2Scripts
    SaveOutcomes <- SaveAlways
    MaxAnalyses = 1
    SaveStates = FALSE
INIT Init
NEXT Next
CHECK_DEADLOCK FALSE
INVARIANT NoTypeError
