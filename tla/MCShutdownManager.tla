-------------------------- MODULE MCShutdownManager --------------------------
EXTENDS ShutdownManager, TLC

CONSTANTS h1, h2, h3, c1, c2, c3

MCHandlers == {h1, h2, h3}
MCCallers  == {c1, c2, c3}
MCPriority == h1 :> 100 @@ h2 :> 200 @@ h3 :> 200
MCCodes    == {ExitError, ExitSIGTERM}
=============================================================================
