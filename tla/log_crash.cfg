SPECIFICATION Spec
CONSTANTS
    Proc = {p1, p2, p3}
    Block = {b1, b2}
    Data = {z, d}
    Zero = z
    Torn = torn
    None = none
    MAXOPBLOCKS = 3
    LOGSIZE = 6
    LogBlocks = 6
    OpBlocks = 2
SYMMETRY Symmetry
INVARIANTS
    CommitAlone
    IdleIsDurable
    PinnedIffLogged
PROPERTIES
    CrashAtomic
