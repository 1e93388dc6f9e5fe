SPECIFICATION Spec
CONSTANTS
    NCyl = 3
    NSec = 2
    MaxVol = 3
    Byte = 4
    Size <- SmallSizes
INVARIANTS TypeOK AppendedApart AnswerRight LostExplained
PROPERTY RemovesOne
CHECK_DEADLOCK FALSE
