SPECIFICATION NixSpec
CONSTANTS
    Keys <- MCKeys
    Below <- MCBelow
    Prefixed <- MCBelow
    Strings <- MCStrings
    Nil = Nil
    Versions <- MCVersions
    Published <- MCPublished
    Latest = Latest
    Missing = Missing
    Inputs <- MCInputs
    Answers <- MCAnswers
    NoFile = NoFile
    Empty = Empty
    Failed = Failed
    Other = Other
    Terminals = {t1, t2}
    None = None
    MaxBusy = 2
    MaxChanges = 2
    ShellTests = {"check.sh"}
    NixTests = {"vm.nix"}
    InStore = TRUE
    BackupFails = FALSE
SYMMETRY MCSymmetry
INVARIANTS
    NextSwitchIsRecorded
    RunsWhatItBuilt
CHECK_DEADLOCK FALSE
