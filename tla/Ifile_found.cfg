SPECIFICATION Spec
CONSTANTS
    NB = 2
    S = 4
    W = 16
    NSector = 10
    Fd = {d1}
    Char = {1}
    MaxFile = 1
    Length <- WholeBlocs
    Target <- SomeBlocs
INVARIANT AllocatedIsFound
CHECK_DEADLOCK FALSE
