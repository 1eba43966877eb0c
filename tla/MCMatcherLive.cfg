\* Two calls of Analyze on the bbMatcher singleton, then SaveState and a
\* LoadState on a fresh bbMatcher, under weak fairness, on
\* every chart of four blocks with at most five edges and one content for
\* every block (every block is a seed of every other). Before the first
\* call no script has run; any pickle dump
\* may fail and leave a truncated file.
CONSTANTS
    Blocks <- MCBlocks
    Flowcharts <- MCFlowcharts
    ContentList <- OneContent
    MinFunctionSizeInBlocks = 3
    CacheScripts <- NoScripts
    SaveOutcomes <- SaveMayFail
    MaxAnalyses = 2
    SaveStates = TRUE
SPECIFICATION FairSpec
\* Analyze returns: the states with pc "done" (or an exception) after the
\* last call end the program.
CHECK_DEADLOCK FALSE
INVARIANT RerunRecordsSame GraphMirrorsChart MIsReference PathInfoListsResult
PROPERTY AnalyzeTerminates
