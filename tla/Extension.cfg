SPECIFICATION EngineSpec
CONSTANTS
    MaxStarts = 2
    MaxRequests = 3
    MaxOthers = 2
CHECK_DEADLOCK FALSE
INVARIANTS
    ClassesFollowModule
    NewestClassIsSeen
