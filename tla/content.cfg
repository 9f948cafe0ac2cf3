SPECIFICATION Spec
CONSTANTS
    p1 = p1
    p2 = p2
    Proc = {p1, p2}
    None = none
    BSIZE = 2
    NDIRECT = 1
    BPB = 14
    IPB = 8
    FSSIZE = 17
    LOGSIZE = 1
    NINODES = 5
    MkfsFiles <- MCMkfsFiles
    Tag <- MCTag
    File = {0, 1, 2, 3}
    ofile <- MCOfile
    Ip <- MCIp
    Writable = {1, 2, 3}
    Sizes = {1, 4}
    WORD = 16
    MAXOPBLOCKS = 6
    MaxCalls = 3
CHECK_DEADLOCK FALSE
INVARIANTS
    BlocksExact
    OpFits
    NeverPanics
PROPERTIES
    IsByteFiles
