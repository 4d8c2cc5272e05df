SPECIFICATION FairSpec
CONSTANTS
    Ports = {p1, p2}
    DEFAULT_PORT = p1
    Unset = unset
    None = none
    MaxBoots = 3
INVARIANTS
    TypeOK
    ServesAsConfigured
PROPERTIES
    FpmOrStops
    ServesOrStops
CHECK_DEADLOCK FALSE
