SPECIFICATION Spec
CONSTANTS
    Keys <- MCKeys
    Below <- MCBelow
    Prefixed <- MCBelow
    Strings <- MCStrings
    Nil = Nil
    Versions <- MCVersions
    Published <- MCPublishedOff
    Latest = Latest
    Missing = Missing
    Inputs <- MCInputsOff
    Answers <- MCAnswers
    NoFile = NoFile
    Empty = Empty
    Failed = Failed
    InStore = TRUE
    Other = Other
PROPERTY
    CustomizedSwitchSurvivesUpdate
