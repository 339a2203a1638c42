\* Two concurrent requests, every I/O failure, cancellation and crash.
SPECIFICATION FairSpec
CONSTANTS
    c1 = c1
    c2 = c2
    Callers = {c1, c2}
    Ops <- MCOps
    States <- PHPStates
    Empty <- NoRuntimes
    Apply <- PHPApply
    Answers = {"ok", "refused", "notfound"}
    NoOp = NoOp
    NoPlan = NoPlan
    NoAnswer = NoAnswer
    Failed = Failed
    Nobody = Nobody
    Absent = Absent
    Torn = Torn
    Binaries = {"php82", "php83", "php83b", "php74", "sh"}
    DetectVersion <- MCDetectVersion
    SupportedVersions = {"8.2", "8.3"}
    FPMServices = {"fpm82", "fpm83", "custom"}
    PHPFPMServiceName <- MCServiceName
    Unset = Unset
INVARIANTS DefaultIsRegistered
PROPERTIES RuntimesAreKept
