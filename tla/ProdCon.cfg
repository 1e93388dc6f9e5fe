SPECIFICATION Spec
CONSTANTS
    Producer = {p1, p2}
    Consumer = {c1, c2}
    Ctx = {p1, p2, c1, c2}
    Core = {p1, p2, c1}
    c1 = c1
    CoreOf <- MCCoreOf
    FirstOn <- MCFirst
    Null = null
    Sem = {"mutex", "vide", "plein"}
    N = 2
    Val <- MCVal
INVARIANTS TypeOK StackRight
PROPERTY KeepsSemaphore
CHECK_DEADLOCK FALSE
