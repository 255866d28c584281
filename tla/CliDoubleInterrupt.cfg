SPECIFICATION CliSpec
CONSTANTS
    Procs = {"p1", "p2"}
    Signalled = {"p1"}
    MaxSignals = 3
    l1 = l1
    Names <- MCNames
    Folders <- MCFolders
    Home <- MCHome
    Stored <- MCStored
    NoFolder = NoFolder
    Inits <- MCInits
    Clears <- MCNames
    Logins = {l1}
    Size <- MCSize
    Roles <- MCRoles
INVARIANT
    SecondInterruptForces
