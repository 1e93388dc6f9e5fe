SPECIFICATION FairSpec
CONSTANTS
    NCore = 4
    NIrq = 16
    TimerIrq = 2
    HdaIrq = 14
PROPERTY AccessEnds
CHECK_DEADLOCK FALSE
