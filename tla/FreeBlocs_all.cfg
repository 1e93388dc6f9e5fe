SPECIFICATION Spec
CONSTANTS
    NSector = 5
    MaxBloc = 6
    Half = 8
    None = None
INVARIANTS TypeOK FreshBloc CountMatches MemoryMatchesDisk FreeListExact NoSpuriousAbort NoStaleHeader NeighbourUntouched
CHECK_DEADLOCK FALSE
CONSTRAINT Followed
