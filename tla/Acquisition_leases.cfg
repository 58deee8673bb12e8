\* One page in two cycles, two workers, the sweeper, an operator, three leases in all: leases, releases, crashes, judgements, the host pause.
SPECIFICATION Spec
CONSTANTS
    s1 = s1  s2 = s2  h1 = h1  h2 = h2  w1 = w1  w2 = w2
    Sources <- OneSource
    Hosts <- OneHost
    HostOf <- OneSourceHost
    PortedSources <- OneSource
    Cycles = {1, 2}
    ExplicitCycles = {2}
    Workers = {w1, w2}
    Outcomes = {"OK", "UNCHANGED", "RATE_LIMITED", "DNS_TEMPORARY", "NAME_NOT_RESOLVED",
                "BLOCKED", "HTTP_ERROR", "GONE", "TIMEOUT"}
    RetryAfters = {1}
    MaxAttempts = 3
    StrikeLimit = 2
    LeaseTicks = 1
    RateLimitTicks = 2
    DnsTicks = 1
    BackoffBase = 1
    BackoffCap = 2
    RetryAfterCap = 2
    MaxGeneration = 2
    MaxDecisions = 1
    NoLease = NoLease
    NoCycle = NoCycle
CONSTRAINT FewClaims
SYMMETRY WorkerSymmetry
INVARIANTS OneTerminalRun NoStaleWriter ParkedStaysParked
PROPERTIES RefinesLedger OnlyPeopleOverride HostPauseOnlyExtends
CHECK_DEADLOCK FALSE
