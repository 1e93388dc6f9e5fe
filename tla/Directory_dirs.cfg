SPECIFICATION DirSpec
CONSTANTS
    NB = 2
    S = 5
    W = 20
    NSector = 11
    Fd = {d1}
    Char <- Nobody
    MaxFile = 5
    Length <- Nobody
    Target <- Nobody
    Name <- Names
    Long <- Longs
    Start <- Starts
    E = 4
    Request <- Requests
    Path <- Paths
INVARIANT DirTypeOK
INVARIANT DirectoryHolds
INVARIANT EntriesNameFiles
INVARIANT SearchIsRight
CHECK_DEADLOCK FALSE
