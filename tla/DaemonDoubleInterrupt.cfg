SPECIFICATION DaemonSpec
CONSTANTS
    server = server
    Server = server
    Nobody = Nobody
    MaxSignals = 2
    HttpServer = "http-server"
    Handlers <- MCHandlers
    Priority <- MCPriority
    Optional <- MCOptional
    Callers <- MCCallers
    Codes <- MCCodes
INVARIANTS
    DoubleInterruptForces
CHECK_DEADLOCK FALSE
