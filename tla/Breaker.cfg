SPECIFICATION FairSpec
CONSTANTS
    c1 = c1
    c2 = c2
    Callers <- MCCallers
    Uses <- MCUses
    Threshold = 3
    MaxAttempts = 2
INVARIANTS
    OneLateRequest
    RequestsAreBounded
PROPERTIES
    FailedProbeReopens
    BreakerRecovers
