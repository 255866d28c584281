---------------------------- MODULE MCComposeDrain ----------------------------
EXTENDS ComposeDrain, TLC

CONSTANTS o1, o2, i1, i2, w1, c1

MCOps      == {o1, o2}
MCOneOp    == {o1}
MCIDs      == {i1, i2}
MCIDOf     == o1 :> i1 @@ o2 :> i2
MCOneIDOf  == o1 :> i1
MCWaiters  == {w1}
MCCallers  == {c1}
MCCodes    == {143}
MCPriority == HttpServer :> 100 @@ Tracker :> 200 @@ DockerClient :> 300

DaemonHandlers == {HttpServer, Tracker, DockerClient}
CliHandlers    == {Tracker}
CliPriority    == Tracker :> 200
=============================================================================
