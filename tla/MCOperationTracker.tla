-------------------------- MODULE MCOperationTracker --------------------------
EXTENDS OperationTracker, TLC

CONSTANTS o1, o2, o3, i1, i2, i3, w1

MCOps        == {o1, o2, o3}
MCIDs        == {i1, i2, i3}
MCWaiters    == {w1}

\* What makeCustomRunner passes: the ID carries a counter and is fresh.
FreshIDs     == o1 :> i1 @@ o2 :> i2 @@ o3 :> i3
=============================================================================
