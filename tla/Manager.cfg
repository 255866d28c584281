SPECIFICATION FairSpec
CONSTANTS
    h1 = h1
    h2 = h2
    h3 = h3
    c1 = c1
    c2 = c2
    c3 = c3
    Nobody = Nobody
    Handlers <- MCHandlers
    Callers <- MCCallers
    Priority <- MCPriority
    Codes <- MCCodes
INVARIANTS
    OneShutdown
    AcceptedIsScheduled
    DoneMeansCleanedUp
    PriorityOrder
PROPERTIES
    KeepsPromise
    ShutdownCompletes
CHECK_DEADLOCK FALSE
