SPECIFICATION FairSpec
CONSTANTS
    Initial = 1
    MaxCases = 4
    MaxCrashes = 3
    CrashIn = {"rename", "delete", "mkdir", "read", "pivot", "run", "save"}
INVARIANTS NothingLost MemoryIsQueue
PROPERTIES StoreSpec Resumed
CHECK_DEADLOCK FALSE
