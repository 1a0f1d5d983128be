CONSTANTS
    Names <- MCNames
    Paths <- MCPaths
    RootName <- MCRootName
    Bytes = {"x"}
    MaxLen = 1
    FH = {1}
    DH = {1}
    TmpNames = {"t1"}
    Scheme = "owncloud"
    MaxInits = 1
    InitTree <- MCInitTree
    PutStatuses = {201}
    NetFails = FALSE
    ShortWrites = FALSE
    CallerConnectsFirst = FALSE
    StatVersion = 2
    Calls = {"stat", "utimes"}
SPECIFICATION Spec
INVARIANT NoRequestOnDeadSession
CHECK_DEADLOCK FALSE
