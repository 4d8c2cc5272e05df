SPECIFICATION Spec
CONSTANTS
    Faults = {"prologue", "dl", "log", "memory", "binary"}
    Requests <- MCRequests
    MaxPrints = 1
    MaxBuffers = 1
    MaxHandlers = 1
    MaxLate = 1
INVARIANT
    BodyIsOneDocument
