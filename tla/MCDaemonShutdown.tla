--------------------------- MODULE MCDaemonShutdown ---------------------------
EXTENDS DaemonShutdown, TLC

CONSTANT server

\* The handlers of RunCmd and RateLimiter with the priorities of handler.go.
MCPriority ==
    "http-server" :> 100 @@ "operation-tracker" :> 200 @@ "redis-client" :> 300
    @@ "docker-client" :> 300 @@ "otel-tracer" :> 400 @@ "logger-sync" :> 500
MCHandlers   == DOMAIN MCPriority
MCOptional   == {"redis-client"}
MCCallers    == Spawned \cup {server}
MCCodes      == {ExitError, ExitSIGINT, ExitSIGTERM}
=============================================================================
