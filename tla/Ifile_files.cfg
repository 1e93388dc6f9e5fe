SPECIFICATION Spec
CONSTANTS
    NB = 2
    S = 4
    W = 16
    NSector = 10
    Fd = {d1}
    Char = {1}
    MaxFile = 2
    Length <- WholeBlocs
    Target <- SomeBlocs
INVARIANT TypeOK
INVARIANT OneOwner
INVARIANT NothingLeaks
INVARIANT ReadsWhatWasWritten
INVARIANT SizeCovers
PROPERTY KeepsBloc
PROPERTY DeleteReturns
PROPERTY SuperExplained
CHECK_DEADLOCK FALSE
