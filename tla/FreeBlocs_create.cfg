SPECIFICATION CreateSpec
CONSTANTS
    NSector = 5
    MaxBloc = 6
    Half = 8
    None = None
INVARIANTS NoDoubleAllocation
PROPERTY KeepsPromise
CHECK_DEADLOCK FALSE
