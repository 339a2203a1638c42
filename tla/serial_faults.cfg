\* One request after the other; one call to the environment fails, and not in
\* an undo.
SPECIFICATION Spec
CONSTANTS
    Callers = {"q1", "q2"}
    Cancellable = {}
    FaultKinds = {"read", "write", "rename", "remove", "validate", "reload", "check",
                  "restart", "start", "status", "inventory", "store", "confirm"}
    MaxFaults = 1
    Absent = Absent
    Unset = Unset
    SupportedVersions = {"8.2", "8.3"}
    SiteIds = {"s0", "q1", "q2"}
    Roots <- MCRoots
    LaravelRoots = {"blog", "shop", "oldblog", "news", "News"}
    NameOf <- MCNameOf
    DomainOf <- MCDomainOf
    Domains = {"blog.test", "shop.test"}
    Binaries = {"php82", "php83"}
    DetectVersion <- MCDetect
    FPMServices = {"fpm82", "fpm83"}
    PHPFPMServiceName <- MCService
    Jobs <- AllJobs
    Serial = TRUE
    MayCrash = FALSE
    InitialSiteSets <- NoneOrOne
    InitialRuntimes <- MCRuntimes
    OperatorBlocks = {"operator"}
    Root = "Caddyfile"
    Foreign = Foreign
    NoSite = NoSite
INVARIANTS TypeOK FailedActivationsLeaveNoRecord NamesAreUnique SitesAreServed NoOrphanSites
CHECK_DEADLOCK FALSE
