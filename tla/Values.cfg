SPECIFICATION Spec
CONSTANTS
    Vars = {x, y, z}
    Cells = {c1, c2, c3, c4}
    None = none
    MaxLost = 1
SYMMETRY Symmetry
INVARIANTS
    TypeOK
    CountsAddUp
PROPERTY
    OthersKeepTheirArrays
CHECK_DEADLOCK FALSE
