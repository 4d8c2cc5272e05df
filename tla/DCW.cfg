SPECIFICATION Spec
CONSTANTS
    Objects = {o1, o2, o3}
    Tokens = {t1, t2, empty}
    Urls = {u1, empty}
    Empty = empty
    None = none
SYMMETRY ObjectSymmetry
INVARIANTS
    TypeOK
    SoleModuleValid
    SoleActsAsOwner
    NeverAnonymous
    PendingErrorHasOrigin
    NothingOutlivesWrappers
PROPERTY
    ClientSticksToInterpreter
