SPECIFICATION Spec
CONSTANTS
    Commands = {c1, c2}
    Versions <- MCVersions
    First = "v1"
    Latest = "latest"
    DataOf <- MCDataOf
    SbinOf <- MCSbinOf
    Includes <- MCIncludes
    Remote <- MCRemote
    Root = "config.yaml"
    VersionFile = "version"
    MaxIncludeDepth = 2
    MaxJobs = 3
    None = None
    Empty = Empty
SYMMETRY MCSymmetry
INVARIANTS
    PulledIsWhole
    LoadIsWhole
    LeftoversHaveCause
CHECK_DEADLOCK FALSE
