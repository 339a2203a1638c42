\* Two activations at once; nothing fails.
SPECIFICATION Spec
CONSTANTS
    Callers = {"q1", "q2"}
    Cancellable = {}
    FaultKinds = {}
    MaxFaults = 0
    Absent = Absent
    Unset = Unset
    SupportedVersions = {"8.2", "8.3"}
    SiteIds = {"q1", "q2"}
    Roots <- MCRoots
    LaravelRoots = {"blog", "shop", "oldblog", "news", "News"}
    NameOf <- MCNameOf
    DomainOf <- MCDomainOf
    Domains = {"blog.test", "shop.test"}
    Binaries = {"php82", "php83"}
    DetectVersion <- MCDetect
    FPMServices = {"fpm82", "fpm83"}
    PHPFPMServiceName <- MCService
    Jobs <- TwoActivations
    Serial = FALSE
    MayCrash = FALSE
    InitialSiteSets <- NoSitesYet
    InitialRuntimes <- MCRuntimes
    OperatorBlocks = {"operator"}
    Root = "Caddyfile"
    Foreign = Foreign
    NoSite = NoSite
INVARIANT ActivatedSitesHavePool
CHECK_DEADLOCK FALSE
