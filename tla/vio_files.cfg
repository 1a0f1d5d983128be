CONSTANTS
    Names <- MCNames
    Paths <- MCPaths
    RootName <- MCRootName
    Bytes = {"x"}
    MaxLen = 1
    FH = {1, 2}
    DH = {1}
    TmpNames = {"t1", "t2"}
    Scheme = "owncloud"
    MaxInits = 1
    InitTree <- MCInitTree
    PutStatuses = {201}
    NetFails = TRUE
    ShortWrites = TRUE
    CallerConnectsFirst = TRUE
    StatVersion = 2
    Calls = {"open", "creat", "read", "write", "close", "lseek", "rmdir"}
SPECIFICATION Spec
INVARIANT NoRequestOnDeadSession
INVARIANT TempFileIsolation
 
CHECK_DEADLOCK FALSE
