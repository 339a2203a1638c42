\* A report while a client runs resolver calls or service actions.
SPECIFICATION Spec
CONSTANTS
    Callers = {"h", "q"}
    Reporter = "h"
    Cancellable = {"h", "q"}
    FaultKinds = {"read", "write", "rename", "remove", "reload", "confirm", "status", "action"}
    MaxFaults = 1
    MaxChanges = 1
    Absent = Absent
    Unset = Unset
    ExternalClaimant = FALSE
    SiteIds = {"blog", "shop"}
    Versions = {"v1"}
    Services = {"caddy", "fpm1", "own"}
    VersionOf <- MCVersionOf
    PHPFPMServiceName <- MCPHPFPMServiceName
    RuntimeServices <- MCRuntimeServices
INVARIANTS HealthTypeOK ReadySitesWereReady ReadyReportsCoverTheMachine UnreadySitesWereNot ResolverCallsAllOrNothing
CHECK_DEADLOCK FALSE
