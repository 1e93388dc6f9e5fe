SPECIFICATION CoreSpec
CONSTANTS
    NCore = 2
    NTask = 5
INVARIANTS TypeOK Pinned EndsItself RingComplete CrashExplained
PROPERTIES Lifecycle DelEnds
CHECK_DEADLOCK FALSE
