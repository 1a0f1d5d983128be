CONSTANTS
    Names <- MCNames
    Paths <- MCPaths
    RootName <- MCRootName
    Bytes = {"x"}
    MaxLen = 1
    FH = {1}
    DH = {1}
    TmpNames = {"t1"}
    Scheme = "owncloud"
    MaxInits = 2
    InitTree <- MCInitTree
    PutStatuses = {201}
    NetFails = TRUE
    ShortWrites = FALSE
    CallerConnectsFirst = FALSE
    StatVersion = 1
    Calls = {"opendir", "readdir", "closedir", "stat", "mkdir", "rmdir", "unlink", "rename", "utimes"}
SPECIFICATION Spec
INVARIANT TypeOK
INVARIANT DeadSessionCause
CHECK_DEADLOCK FALSE
