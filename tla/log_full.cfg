SPECIFICATION Spec
CONSTANTS
    Proc = {p1, p2, p3}
    Block = {b1, b2, b3}
    Data = {z}
    Zero = z
    Torn = torn
    None = none
    MAXOPBLOCKS = 1
    LOGSIZE = 3
    LogBlocks = 3
    OpBlocks = 1
SYMMETRY Symmetry
INVARIANT
    NeverPanics
