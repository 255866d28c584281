-------------------------- MODULE MCDaemonRequests ---------------------------
EXTENDS DaemonRequests, TLC

MCDefaults == [k \in Keys |-> IF k = "plain" THEN "a" ELSE Nil]
=============================================================================
