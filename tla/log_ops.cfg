SPECIFICATION FairSpec
CONSTANTS
    Proc = {p1, p2, p3}
    Block = {b1, b2, b3}
    Data = {z}
    Zero = z
    Torn = torn
    None = none
    MAXOPBLOCKS = 2
    LOGSIZE = 4
    LogBlocks = 4
    OpBlocks = 1
INVARIANTS
    OperationsFit
PROPERTIES
    WokenUp
