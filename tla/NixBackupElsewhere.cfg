SPECIFICATION NixSpec
CONSTANTS
    Keys <- MCKeys
    Below <- MCBelow
    Prefixed <- MCBelow
    Strings <- MCStrings
    Nil = Nil
    Versions <- MCVersions
    Published <- MCPublished
    Latest = Latest
    Missing = Missing
    Inputs <- MCInputs
    Answers <- MCAnswers
    NoFile = NoFile
    Empty = Empty
    Failed = Failed
    Other = Other
    Terminals = {"t1"}
    None = None
    MaxBusy = 2
    MaxChanges = 2
    ShellTests = {"check.sh"}
    NixTests = {"vm.nix"}
    InStore = FALSE
    BackupFails = FALSE
PROPERTIES
    SwitchIsBackedUp
CHECK_DEADLOCK FALSE
