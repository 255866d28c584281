SPECIFICATION Spec
CONSTANTS
    Keys <- MCKeys
    Below <- MCBelow
    Prefixed <- MCBelow
    Strings <- MCStrings
    Nil = Nil
    Versions <- MCVersions
    Published <- MCPublished
    Latest = Latest
    Missing = Missing
    Inputs <- MCInputs
    Answers <- MCAnswers
    NoFile = NoFile
    Empty = Empty
    Failed = Failed
    InStore = FALSE
    Other = Other
PROPERTY
    BackedUpBeforeTruncated
