SPECIFICATION Spec
CONSTANTS
    p1 = p1
    p2 = p2
    Proc = {p1}
    None = none
    Name = {"a"}
    NINODES = 3
    NINODE = 3
    Calls <- MixedCalls
    Path <- UpPath
INVARIANT
    NeverPanics
