SPECIFICATION FairDrainSpec
CONSTANTS
    o1 = o1
    o2 = o2
    i1 = i1
    i2 = i2
    w1 = w1
    c1 = c1
    NoOp = NoOp
    Nobody = Nobody
    HttpServer = HttpServer
    Tracker = Tracker
    DockerClient = DockerClient
    Ops <- MCOps
    IDs <- MCIDs
    IDOf <- MCIDOf
    Waiters <- MCWaiters
    Callers <- MCCallers
    Codes <- MCCodes
    Handlers <- DaemonHandlers
    Priority <- MCPriority
INVARIANTS
    DockerOutlivesRequests
    WaitGroupNotReused
    DoneMeansDrained
CHECK_DEADLOCK FALSE
