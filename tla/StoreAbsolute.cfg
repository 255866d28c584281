SPECIFICATION Spec
CONSTANTS
    Procs = {"p1", "p2"}
    l1 = l1
    Names <- MCNames
    Folders <- MCFolders
    Home <- MCHome
    Stored <- MCStored
    NoFolder = NoFolder
    Inits <- MCInitsAbsolute
    Clears <- MCClears
    Logins = {l1}
    Size <- MCSize
    Roles <- MCRoles
INVARIANT
    FoldersAreListed
