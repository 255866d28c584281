SPECIFICATION FairSpec
CONSTANTS
    o1 = o1
    o2 = o2
    o3 = o3
    i1 = i1
    i2 = i2
    i3 = i3
    w1 = w1
    NoOp = NoOp
    Ops <- MCOps
    IDs <- MCIDs
    Waiters <- MCWaiters
    IDOf <- FreshIDs
INVARIANTS
    DrainedMeansFinished
    ActiveIsCancellable
PROPERTIES
    WaitersAreReleased
CHECK_DEADLOCK FALSE
