SPECIFICATION Spec
CONSTANTS
    NSector = 5
    MaxBloc = 6
    Half = 8
    None = None
INVARIANT NoDoubleAllocation
CHECK_DEADLOCK FALSE
