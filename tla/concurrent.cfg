\* Two requests at once; one call to the environment fails, q1 may be cancelled,
\* the daemon may die.
SPECIFICATION FairSpec
CONSTANTS
    Callers = {"q1", "q2"}
    Cancellable = {"q1"}
    FaultKinds = {"rename", "remove", "reload", "restart", "start", "store", "undo"}
    MaxFaults = 1
    Absent = Absent
    Unset = Unset
    SupportedVersions = {"8.2", "8.3"}
    SiteIds = {"q1", "q2"}
    Roots <- MCRoots
    LaravelRoots = {"blog", "shop", "oldblog", "news", "News"}
    NameOf <- MCNameOf
    DomainOf <- MCDomainOf
    Domains = {"blog.test", "shop.test"}
    Binaries = {"php82", "php83"}
    DetectVersion <- MCDetect
    FPMServices = {"fpm82", "fpm83"}
    PHPFPMServiceName <- MCService
    Jobs <- RaceJobs
    Serial = FALSE
    MayCrash = TRUE
    InitialSiteSets <- NoSitesYet
    InitialRuntimes <- MCRuntimes
    OperatorBlocks = {"operator"}
    Root = "Caddyfile"
    Foreign = Foreign
    NoSite = NoSite
INVARIANTS ActivatedSitesStay
PROPERTIES DeletedSitesStayDeleted RequestsEnd
CHECK_DEADLOCK FALSE
