SPECIFICATION ToolsSpec
CONSTANTS
    NB = 1
    S = 2
    W = 7
    NSector = 8
    Fd = {src, dest}
    Src = src
    Dest = dest
    Char = {1, 6}
    MaxFile = 2
    MaxText = 3
    Length = {}
    Target = {}
INVARIANT Faithful
INVARIANT ReadsWhatWasWritten
CHECK_DEADLOCK FALSE
