SPECIFICATION Spec
CONSTANTS
    Slot = {s1, s2, s3}
    init = s1
    CPU = {c1, c2}
    None = none
    MaxPid = 4
    KillArgs = {2, 3}
SYMMETRY Symmetry
INVARIANT
    KilledNotAsleep
