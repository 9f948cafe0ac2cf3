SPECIFICATION Spec
CONSTANTS
    Proc = {p1, p2}
    Buf = {i1, i2, i3}
    Block = {k1, k2, k3, k4}
    Data = {x, y}
    None = none
    MaxPinned = 2
SYMMETRY Symmetry
INVARIANTS
    BuffersInOrder
PROPERTIES
    Transparent
