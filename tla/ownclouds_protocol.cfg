CONSTANTS
    Names <- MCNames
    Paths <- MCPaths
    RootName <- MCRootName
    Bytes = {"x"}
    MaxLen = 1
    FH = {1}
    DH = {1}
    TmpNames = {"t1"}
    Scheme = "ownclouds"
    MaxInits = 1
    InitTree <- MCInitTree
    PutStatuses = {201}
    NetFails = FALSE
    ShortWrites = FALSE
    CallerConnectsFirst = TRUE
    StatVersion = 2
    Calls = {"opendir"}
SPECIFICATION Spec
INVARIANT SchemeSelectsProtocol
CHECK_DEADLOCK FALSE
