SPECIFICATION Spec
CONSTANTS
    Initial = 1
    MaxCases = 3
    MaxCrashes = 3
    CrashIn = {"rename", "delete", "mkdir", "read", "pivot", "nuke", "run", "save"}
INVARIANT NothingLost
CHECK_DEADLOCK FALSE
