SPECIFICATION Spec
CONSTANTS
    MaxObjects = 11
    MaxItems = 2
    MaxDepth = 2
    MaxCalls = 2
CHECK_DEADLOCK FALSE
INVARIANTS
    CountsCoverHolders
    LossPerCall
