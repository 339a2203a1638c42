\* An installation and an upgrade in which nothing fails.
SPECIFICATION Spec
CONSTANTS
    HostSupported = TRUE
    FaultKinds = {}
    MaxFaults = 0
    Assets = {"stub", "site"}
    MaxOps = 2
INVARIANT UpgradeStartsTheUnit
CHECK_DEADLOCK FALSE
