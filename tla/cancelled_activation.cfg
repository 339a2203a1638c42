\* One activation whose client goes away.
SPECIFICATION Spec
CONSTANTS
    Callers = {"q1"}
    Cancellable = {"q1"}
    FaultKinds = {}
    MaxFaults = 0
    Absent = Absent
    Unset = Unset
    SupportedVersions = {"8.2", "8.3"}
    SiteIds = {"q1"}
    Roots <- MCRoots
    LaravelRoots = {"blog", "shop", "oldblog", "news", "News"}
    NameOf <- MCNameOf
    DomainOf <- MCDomainOf
    Domains = {"blog.test", "shop.test"}
    Binaries = {"php82", "php83"}
    DetectVersion <- MCDetect
    FPMServices = {"fpm82", "fpm83"}
    PHPFPMServiceName <- MCService
    Jobs <- OneActivation
    Serial = FALSE
    MayCrash = FALSE
    InitialSiteSets <- NoSitesYet
    InitialRuntimes <- MCRuntimes
    OperatorBlocks = {"operator"}
    Root = "Caddyfile"
    Foreign = Foreign
    NoSite = NoSite
INVARIANT FailedActivationsLeaveNoRecord
CHECK_DEADLOCK FALSE
