CONSTANTS
    Names <- MCNames
    Paths <- MCPaths
    RootName <- MCRootName
    Bytes = {"x"}
    MaxLen = 1
    FH = {1}
    DH = {1}
    TmpNames = {"t1"}
    Scheme = "owncloud"
    MaxInits = 1
    InitTree <- MCInitTree
    PutStatuses = {201}
    NetFails = FALSE
    ShortWrites = FALSE
    CallerConnectsFirst = TRUE
    StatVersion = 2
    Calls = {"opendir", "readdir", "stat", "unlink", "rmdir"}
SPECIFICATION Spec
PROPERTY StatAfterDeleteNotCached
CHECK_DEADLOCK FALSE
