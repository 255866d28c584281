SPECIFICATION Spec
CONSTANTS
    p1 = p1
    p2 = p2
    values = values
    extra = extra
    v1 = v1
    v2 = v2
    Absent = Absent
    Files = {values, extra}
    Versions = {v1, v2}
    Contents <- MCContents
    Procs = {p1, p2}
    Roles <- UserAndDeleter
    MaxTime = 3
INVARIANTS
    NothingLost
    RestoreIsExact
    BackupsAreFrozen
CHECK_DEADLOCK FALSE
