SPECIFICATION FairSpec
CONSTANTS
    Slot = {s1, s2, s3}
    init = s1
    CPU = {c1, c2}
    None = none
    MaxPid = 4
    KillArgs = {2}
INVARIANTS
    OneCpuPerProcess
    FreedIsOffCpu
    ExitReachesParent
    OnlyTheNamedDies
PROPERTIES
    OrphanReaped
