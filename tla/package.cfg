\* Four package operations in any order, one failure anywhere.
SPECIFICATION Spec
CONSTANTS
    HostSupported = TRUE
    FaultKinds = {"file", "serve", "die", "unpack", "script", "prerm", "reboot"}
    MaxFaults = 1
    Assets = {"stub", "site"}
    MaxOps = 4
INVARIANTS TypeOK SocketContract  AbortsRestartTheUnit
PROPERTIES ForeignFilesKept StartedUnitServes OperationsEnd
CHECK_DEADLOCK FALSE
