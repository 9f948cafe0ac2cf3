SPECIFICATION Spec
CONSTANTS
    Buf = {b1, b2, b3}
    Data = {x, y}
    Garbage = garbage
    None = none
    NUM = 8
    WRAP = 16
SYMMETRY Symmetry
INVARIANTS
    ChainsPartition
    NoDescIsShort
    CompletionsReach
PROPERTIES
    PerformsRequest
