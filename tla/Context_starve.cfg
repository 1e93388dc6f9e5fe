SPECIFICATION FairSpec
CONSTANTS
    NCore = 2
    NTask = 2
PROPERTY EveryCommandRuns
CHECK_DEADLOCK FALSE
