SPECIFICATION Spec
CONSTANTS
    Faults = {}
    Objects = {o1, o2}
    Tokens = {t1, empty}
    Urls = {u1, empty}
    Url = u1
    Requests <- MCRequests
    Empty = empty
    None = none
    MaxPrints = 0
    MaxBuffers = 0
    MaxHandlers = 1
    MaxLate = 1
INVARIANT
    IdleIsClean
PROPERTY
    Isolation
SYMMETRY ObjectSymmetry
