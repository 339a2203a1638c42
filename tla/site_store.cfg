\* Two concurrent requests, every I/O failure, cancellation and crash.
SPECIFICATION FairSpec
CONSTANTS
    c1 = c1
    c2 = c2
    Callers = {c1, c2}
    Ops <- MCOps
    States <- SiteStates
    Empty = {}
    Apply <- SiteApply
    Answers = {"ok", "refused", "notfound"}
    NoOp = NoOp
    NoPlan = NoPlan
    NoAnswer = NoAnswer
    Failed = Failed
    Nobody = Nobody
    Absent = Absent
    Torn = Torn
    SiteIds = {"i1", "i2"}
    Roots <- MCRoots
    LaravelRoots = {"r1", "r1copy", "r2"}
    NameOf <- MCNameOf
    DomainOf <- MCDomainOf
    Domains = {"r1.test", "r2.test"}
    SupportedVersions = {"8.3"}
    Unset = Unset
INVARIANTS TypeOK FileIsWhole PlanIsCurrent
PROPERTIES RegistrationsNeverCollide OneSitePerSave AtomicStoreSpec CallsReturn
