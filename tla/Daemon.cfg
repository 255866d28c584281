SPECIFICATION FairDaemonSpec
CONSTANTS
    server = server
    Server = server
    Nobody = Nobody
    MaxSignals = 3
    HttpServer = "http-server"
    Handlers <- MCHandlers
    Priority <- MCPriority
    Optional <- MCOptional
    Callers <- MCCallers
    Codes <- MCCodes
INVARIANTS
    ExitStatusHasCause
    ExitIsClean
PROPERTIES
    ThirdInterruptForces
    DaemonExits
CHECK_DEADLOCK FALSE
