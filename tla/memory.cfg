SPECIFICATION Spec
CONSTANTS
    LEVELS = 2
    FAN = 7
    PGSIZE = 4
    UINT64 = 1024
    UART0 = 1
    VIRTIO0 = 2
    PLIC = 3
    KERNBASE = 4
    ETEXT = 5
    END = 5
    PHYSTOP = 36
    NPROC = 2
    Programs <- MCPrograms
    Execs <- MCExecs
    Deltas <- MCDeltas
    Buffers <- MCBuffers
    Values <- MCValues
    ALIGN = 2
    PTR = 1
    MaxPages = 4
    MaxAllocs = 8
    MaxCalls = 5
CHECK_DEADLOCK FALSE
INVARIANTS
    PagesAccounted
    NeverPanics
    UserReach
PROPERTIES
    IsAddressSpaces
