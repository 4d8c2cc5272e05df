SPECIFICATION FairSpec
CONSTANTS
    Faults = {"prologue", "dl", "log", "memory", "binary"}
    Requests <- MCRequests
    MaxPrints = 1
    MaxBuffers = 2
    MaxHandlers = 1
    MaxLate = 1
INVARIANTS
    TypeOK
    EnvelopeIsLast
    CleanReply
    ResolvedIsWhatWasPrinted
    LeftoversOnlyAfterThrow
    SilenceHasACause
PROPERTY
    EveryRequestEnds
