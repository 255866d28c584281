SPECIFICATION FairSpec
CONSTANTS
    h1 = h1
    h2 = h2
    h3 = h3
    c1 = c1
    c2 = c2
    c3 = c3
    Nobody = Nobody
    Handlers <- MCHandlers
    Callers <- MCCallers
    Priority <- MCPriority
    Codes <- MCCodes
PROPERTIES
    OverrunIsReported
CHECK_DEADLOCK FALSE
