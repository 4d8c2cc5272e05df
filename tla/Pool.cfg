SPECIFICATION FairSpec
CONSTANTS
    outer = outer
    inner = inner
    Workers = {w1, w2}
    Calls = {outer, inner}
    Inner <- MCInner
    None = none
    MaxTries = 2
    Backlog = 1
    StartServers = 1
    MinSpare = 1
    MaxSpare = 1
    MaxRequests = 2
    NginxTimeout = 1
    TerminateTimeout = 2
INVARIANTS
    TypeOK
    OnePlace
PROPERTIES
    AtMostOncePerAttempt
    KillHitsNobodyWaiting
    BacklogDrains
    AbandonedWorkEnds
