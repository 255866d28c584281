SPECIFICATION Spec
CONSTANTS
    Requests = {"r1", "r2"}
    Keys = {"plain", "extra"}
    Values = {"a", "b"}
    Containers = {"web", "db"}
    Defaults <- MCDefaults
    MaxRequests = 3
    Nil = Nil
    NoFile = NoFile
    Empty = Empty
INVARIANTS
    SetIsKept
    AppliedIsRunning
PROPERTIES
    RequestsAreAnswered
CHECK_DEADLOCK FALSE
