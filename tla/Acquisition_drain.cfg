\* Two hosts, two cycles, one worker that picks its cycle itself, no page ever parked, cooldowns: the queue drains and nothing stays RUNNING.
SPECIFICATION FairSpec
CONSTANTS
    s1 = s1  s2 = s2  h1 = h1  h2 = h2  w1 = w1  w2 = w2
    Sources <- TwoSources
    Hosts <- TwoHosts
    HostOf <- OwnHosts
    PortedSources = {}
    Cycles = {1, 2}
    ExplicitCycles = {}
    Workers = {w1}
    Outcomes = {"OK", "RATE_LIMITED"}
    RetryAfters = {}
    MaxAttempts = 1
    StrikeLimit = 9
    LeaseTicks = 1
    RateLimitTicks = 1
    DnsTicks = 1
    BackoffBase = 1
    BackoffCap = 2
    RetryAfterCap = 2
    MaxGeneration = 1
    MaxDecisions = 0
    NoLease = NoLease
    NoCycle = NoCycle
PROPERTIES NothingClaimableStarves NothingStaysRunning
CHECK_DEADLOCK FALSE
