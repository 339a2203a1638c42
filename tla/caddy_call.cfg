\* Requests one at a time; any one call fails, except in an undo and the chmod
\* after a rename, and the daemon may die at any step.
SPECIFICATION CallSpec
CONSTANTS
    Callers = {"q1", "q2"}
    Cancellable = {"q1"}
    FaultKinds = {"read", "write", "rename", "remove", "validate", "reload"}
    MaxFaults = 1
    Absent = Absent
    SiteIds = {"s1", "s2"}
    Configs <- MCConfigs
    OperatorBlocks = {"operator"}
    Root = "Caddyfile"
    Foreign = Foreign
    InitialFiles <- SomeFiles
INVARIANTS TypeOK FailedCallRestoresFiles LiveMatchesFiles OperatorConfigKept
