CONSTANTS
    Names <- MCNames
    Paths <- MCPaths
    RootName <- MCRootName
    Bytes = {"x"}
    MaxLen = 1
    FH = {1}
    DH = {1}
    TmpNames = {"t1"}
    Scheme = "owncloud"
    MaxInits = 2
    InitTree <- MCInitTree
    PutStatuses = {201}
    NetFails = FALSE
    ShortWrites = FALSE
    CallerConnectsFirst = TRUE
    StatVersion = 2
    Calls = {"opendir", "closedir"}
SPECIFICATION Spec
INVARIANT NoRequestOnDeadSession
CHECK_DEADLOCK FALSE
