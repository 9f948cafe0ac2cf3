CONSTANTS
    Hart = {h0, h1}
    Hart0 = h0
    N = 2
    TicksMod = 4
    Ticks0 = 3
    Delays = {0, 1}
    MaxTicks = 1
    MaxActors = 3
    None = None
SPECIFICATION Spec
INVARIANTS
    LockDiscipline
    TpIsHart
    SleeperWoken
