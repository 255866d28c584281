---------------------------- MODULE MCRetryBreaker ----------------------------
EXTENDS RetryBreaker, TLC

CONSTANTS c1, c2

MCCallers == {c1, c2}

\* c1 pulls images, which nests the retries; c2 looks networks up and removes images.
MCUses == c1 :> {"check"} @@ c2 :> {"network", "find"}
=============================================================================
