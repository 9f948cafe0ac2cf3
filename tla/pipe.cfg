SPECIFICATION Spec
CONSTANTS
    Proc = {p1, p2, p3}
    first = p1
    None = none
    Byte = {x, y}
    NFILE = 2
    PIPESIZE = 2
    WRAP = 4
    N = 3
SYMMETRY Symmetry
CHECK_DEADLOCK FALSE
INVARIANTS
    DescriptorsKeepPipe
    NobodyForgotten
PROPERTIES
    IsFifo
