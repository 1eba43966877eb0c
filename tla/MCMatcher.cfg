\* Analyze on every flow chart of four blocks with at most five edges and every
\* assignment of three contents to the blocks, after ida_stats.py may have
\* loaded or written the graph cache.
CONSTANTS
    Blocks <- MCBlocks
    Flowcharts <- MCFlowcharts
    ContentList <- MCContents
    MinFunctionSizeInBlocks = 3
    CacheScripts <- IdaStatsScript
    SaveOutcomes <- SaveAlways
    MaxAnalyses = 1
    SaveStates = FALSE
INIT Init
NEXT Next
\* Analyze returns: the states with pc "done" (or an exception) end the program.
CHECK_DEADLOCK FALSE
INVARIANT TypeOK GraphMirrorsChart MIsReference UniformBucketLength EmittedClassesWellSized
