\* One request at a time; nothing fails.
SPECIFICATION CallSpec
CONSTANTS
    Callers = {"q1"}
    Cancellable = {}
    FaultKinds = {}
    MaxFaults = 0
    Absent = Absent
    SiteIds = {"s1", "s2"}
    Configs <- OneConfig
    OperatorBlocks = {}
    Root = "Caddyfile"
    Foreign = Foreign
    InitialFiles <- OnlyImport
INVARIANT RemovalTakesEffect
